---- MODULE Spec2Model ----
(***************************************************************************)
(* xpu_bench as a state machine: the MetricsCollector of                   *)
(* src/xpu_bench/metrics.py (a caller starting and stopping a background   *)
(* sampling thread that appends to a shared list), its probes and its      *)
(* summary, and the BenchmarkRunner of src/xpu_bench/runner.py (main, the  *)
(* group runs, run_all_benchmarks and generate_report).                    *)
(*                                                                         *)
(* Python values: a dict is a record (the empty dict is the function with  *)
(* the empty domain), a list is a sequence, None returned by a probe is    *)
(* NoneVal.  An operator that models a Python function returns             *)
(* [raised |-> BOOLEAN, val |-> ...]: raised means an exception left the   *)
(* function.                                                               *)
(***************************************************************************)
EXTENDS Integers, Sequences, FiniteSets, TLC

(***************************************************************************)
(* Bounds of the model.                                                    *)
(***************************************************************************)
\* calls of start_collection / stop_collection the sequential caller makes
MaxCalls == 4
\* samples after which a sampling thread takes no further sample
MaxSamples == 2
\* last value of the clock
MaxTime == 2
\* longest list of results generate_report is called with on its own
MaxResults == 3

(***************************************************************************)
(* Python values.                                                          *)
(***************************************************************************)
EmptyDict == [k \in {} |-> 0]
NoneVal == [none |-> TRUE]
Returned(v) == [raised |-> FALSE, val |-> v]
Raised == [raised |-> TRUE, val |-> NoneVal]
\* truth value of an Optional[Dict]: None and {} are false
Truthy(v) == v # NoneVal /\ v # EmptyDict
\* d.get(k, default), and `k in d`
Get(d, k, default) == IF k \in DOMAIN d THEN d[k] ELSE default
HasKey(d, k) == k \in DOMAIN d

\* int(s) / float(s): the decimal strings the tools print, and their values
NumVal == ("0" :> 0) @@ ("1" :> 1) @@ ("50" :> 50) @@ ("60" :> 60) @@
          ("250" :> 250) @@ ("1024" :> 1024) @@ ("4096" :> 4096)
IsNumeric(s) == s \in DOMAIN NumVal
\* float(p) if p != 'N/A' else 0   (metrics.py:143-147); raises on any other text
FloatOrNA(p) == IF p = "N/A" THEN Returned(0)
                ELSE IF IsNumeric(p) THEN Returned(NumVal[p]) ELSE Raised
\* int(parts[0])   (metrics.py:141)
IntOf(p) == IF IsNumeric(p) THEN Returned(NumVal[p]) ELSE Raised

\* s.strip() on the text segments the NPU tool prints
Stripped == (" 910B " :> "910B") @@ (" 910B" :> "910B")
Strip(s) == IF s \in DOMAIN Stripped THEN Stripped[s] ELSE s

(***************************************************************************)
(* What subprocess.run(...) can do: raise FileNotFoundError (tool not on   *)
(* PATH), raise TimeoutExpired, raise another OSError (tool present but    *)
(* not executable: PermissionError), or return with a return code and      *)
(* stdout.  stdout is the list of its lines; a line of the GPU tool is the *)
(* list of its comma-separated fields, a line of the NPU tool the list of  *)
(* its colon-separated segments; a blank line is <<>>.                     *)
(***************************************************************************)
RunRaised(kind) == [kind |-> kind, returncode |-> 0, stdout |-> <<>>]
RunExit(rc, out) == [kind |-> "exit", returncode |-> rc, stdout |-> out]

GoodLine == <<"0", "A100", "50", "1024", "4096", "60", "250">>
SecondLine == <<"1", "A100", "0", "0", "4096", "50", "60">>
NALine == <<"0", "A100", "N/A", "N/A", "N/A", "N/A", "N/A">>
\* nvidia-smi prints [N/A] for a field the board does not report
BracketLine == <<"0", "A100", "50", "1024", "4096", "60", "[N/A]">>
BadIndexLine == <<"N/A", "A100", "50", "1024", "4096", "60", "250">>
ShortLine == <<"0", "A100", "50">>
BlankLine == <<>>

SmiRuns ==
    { RunRaised("not_found"), RunRaised("timeout"), RunRaised("os_error"),
      RunExit(1, <<BlankLine>>),
      RunExit(0, <<BlankLine>>),
      RunExit(0, <<GoodLine>>),
      RunExit(0, <<GoodLine, SecondLine>>),
      RunExit(0, <<NALine>>),
      RunExit(0, <<ShortLine, GoodLine>>),
      RunExit(0, <<BracketLine>>),
      RunExit(0, <<GoodLine, BadIndexLine>>) }

\* byte counts are held in units of 1024 bytes: 1024**2 and 1024**3 bytes
MiB == 1024
GiB == 1048576
\* import torch / torch.cuda.*: ImportError, another error, no CUDA, or devices
TorchState(kind, devs) == [kind |-> kind, devices |-> devs]
TorchDevice == [name |-> "A100", memory_allocated |-> 2 * MiB, total_memory |-> 4096 * MiB]
TorchStates ==
    { TorchState("import_error", <<>>), TorchState("error", <<>>),
      TorchState("no_cuda", <<>>), TorchState("cuda", <<TorchDevice>>) }

NpuRuns ==
    { RunRaised("not_found"), RunRaised("timeout"), RunRaised("os_error"),
      RunExit(1, <<BlankLine>>),
      RunExit(0, <<BlankLine>>),
      RunExit(0, << <<"NPU 0", " 910B ">> >>),
      RunExit(0, << <<"npu-smi 23.0">>, <<"NPU 0", " 910B">>, <<"Chip", "0">> >>) }
\* 'NPU' in line, for the segments above
HasNPU(line) == \E i \in 1..Len(line) : line[i] \in {"NPU 0"}

\* psutil: the readings, or an error raised by any of the psutil calls
SysReading(kind, cpu, disk_total) ==
    [kind |-> kind, cpu_percent |-> cpu, cpu_count |-> 4,
     memory_total |-> 4 * GiB, memory_used |-> 2 * GiB, memory_percent |-> 50,
     disk_total |-> disk_total, disk_used |-> IF disk_total = 0 THEN 0 ELSE GiB,
     bytes_sent |-> 1024, bytes_recv |-> 4096]
SysReadings ==
    { SysReading("ok", 10, 2 * GiB), SysReading("ok", 30, 2 * GiB),
      SysReading("ok", 10, 0), SysReading("error", 0, 0) }

(***************************************************************************)
(* The probes.                                                             *)
(***************************************************************************)
\* MetricsCollector.collect_system_metrics: every exception yields {}
collect_system_metrics(sys) ==
    IF sys.kind # "ok" \/ sys.disk_total = 0
    THEN Returned(EmptyDict)
    ELSE Returned([cpu_percent |-> sys.cpu_percent,
                   cpu_count |-> sys.cpu_count,
                   memory_total_gb |-> sys.memory_total \div GiB,
                   memory_used_gb |-> sys.memory_used \div GiB,
                   memory_percent |-> sys.memory_percent,
                   disk_total_gb |-> sys.disk_total \div GiB,
                   disk_used_gb |-> sys.disk_used \div GiB,
                   disk_percent |-> (sys.disk_used * 100) \div sys.disk_total,
                   network_bytes_sent |-> sys.bytes_sent,
                   network_bytes_recv |-> sys.bytes_recv])

\* the lines of stdout that reach the dict literal of metrics.py:140-148
SmiKept(out) == SelectSeq(out, LAMBDA line : Len(line) > 0 /\ Len(line) >= 7)
SmiLineRaises(parts) ==
    \/ IntOf(parts[1]).raised
    \/ \E i \in 3..7 : FloatOrNA(parts[i]).raised
SmiDevice(parts) ==
    [index |-> IntOf(parts[1]).val,
     name |-> parts[2],
     utilization_percent |-> FloatOrNA(parts[3]).val,
     memory_used_mb |-> FloatOrNA(parts[4]).val,
     memory_total_mb |-> FloatOrNA(parts[5]).val,
     temperature_c |-> FloatOrNA(parts[6]).val,
     power_draw_w |-> FloatOrNA(parts[7]).val]

\* the PyTorch fallback, metrics.py:155-174: only ImportError is caught
TorchFallback(torch) ==
    CASE torch.kind = "import_error" -> Returned(NoneVal)
      [] torch.kind = "error" -> Raised
      [] torch.kind = "no_cuda" -> Returned(NoneVal)
      [] torch.kind = "cuda" ->
           Returned([gpus |-> [i \in 1..Len(torch.devices) |->
                       [index |-> i - 1,
                        name |-> torch.devices[i].name,
                        memory_used_mb |-> torch.devices[i].memory_allocated \div MiB,
                        memory_total_mb |-> torch.devices[i].total_memory \div MiB]]])

\* MetricsCollector._collect_nvidia_metrics
_collect_nvidia_metrics(smi, torch) ==
    CASE smi.kind \in {"not_found", "timeout"} -> TorchFallback(torch)
      [] smi.kind = "os_error" -> Raised
      [] smi.kind = "exit" /\ smi.returncode # 0 -> TorchFallback(torch)
      [] smi.kind = "exit" /\ smi.returncode = 0 ->
           LET kept == SmiKept(smi.stdout) IN
           IF \E i \in 1..Len(kept) : SmiLineRaises(kept[i])
           THEN Raised
           ELSE Returned([gpus |-> [i \in 1..Len(kept) |-> SmiDevice(kept[i])]])

\* MetricsCollector.collect_gpu_metrics
collect_gpu_metrics(smi, torch) ==
    LET nvidia_metrics == _collect_nvidia_metrics(smi, torch) IN
    IF nvidia_metrics.raised THEN Raised
    ELSE IF Truthy(nvidia_metrics.val)
         THEN Returned([nvidia |-> nvidia_metrics.val])
         ELSE Returned(EmptyDict)

\* the lines of stdout that reach the dict literal of metrics.py:205-212
NpuKept(out) == SelectSeq(out, LAMBDA line : HasNPU(line) /\ Len(line) >= 2)
NpuDevice(parts) ==
    [name |-> Strip(parts[2]),
     utilization_percent |-> 0, memory_used_mb |-> 0, memory_total_mb |-> 0,
     temperature_c |-> 0, power_draw_w |-> 0]

\* MetricsCollector._collect_ascend_metrics
_collect_ascend_metrics(npu) ==
    CASE npu.kind \in {"not_found", "timeout"} -> Returned(NoneVal)
      [] npu.kind = "os_error" -> Raised
      [] npu.kind = "exit" /\ npu.returncode # 0 -> Returned(NoneVal)
      [] npu.kind = "exit" /\ npu.returncode = 0 ->
           LET kept == NpuKept(npu.stdout) IN
           Returned([npus |-> [i \in 1..Len(kept) |-> NpuDevice(kept[i])]])

\* MetricsCollector.collect_npu_metrics
collect_npu_metrics(npu) ==
    LET ascend_metrics == _collect_ascend_metrics(npu) IN
    IF ascend_metrics.raised THEN Raised
    ELSE IF Truthy(ascend_metrics.val)
         THEN Returned([ascend |-> ascend_metrics.val])
         ELSE Returned(EmptyDict)

\* what the machine does in one sampling iteration: one outcome per probe
ProbeInput(sys, smi, torch, npu) == [sys |-> sys, smi |-> smi, torch |-> torch, npu |-> npu]
ProbeInputs == [sys : SysReadings, smi : SmiRuns, torch : TorchStates, npu : NpuRuns]

\* MetricsCollector.collect_current_metrics, at clock value ts
collect_current_metrics(in, ts) ==
    LET system == collect_system_metrics(in.sys)
        gpu == collect_gpu_metrics(in.smi, in.torch)
        npu == collect_npu_metrics(in.npu)
    IN  IF system.raised \/ gpu.raised \/ npu.raised THEN Raised
        ELSE Returned([timestamp |-> ts, system |-> system.val,
                       gpu |-> gpu.val, npu |-> npu.val])

\* the machines the sampling thread runs on: a GPU host whose tool answers, one
\* whose tool prints [N/A] for a field, and a host with no tool and failing psutil
LifecycleInputs ==
    { ProbeInput(SysReading("ok", 10, 2 * GiB), RunExit(0, <<GoodLine>>),
                 TorchState("import_error", <<>>), RunRaised("not_found")),
      ProbeInput(SysReading("ok", 30, 2 * GiB), RunExit(0, <<BracketLine>>),
                 TorchState("import_error", <<>>), RunRaised("not_found")),
      ProbeInput(SysReading("error", 0, 0), RunRaised("not_found"),
                 TorchState("import_error", <<>>), RunRaised("not_found")) }

(***************************************************************************)
(* State.                                                                  *)
(***************************************************************************)
Callers == {"c1", "c2"}
Threads == 1..MaxCalls
\* self.collection_thread = None, self.start_time = None   (metrics.py:26, 28)
NoThread == 0
NoTime == -1

VARIABLES
    is_collecting,      \* self.is_collecting
    collection_thread,  \* self.collection_thread: a thread of Threads, or NoThread
    metrics_data,       \* self.metrics_data
    start_time,         \* self.start_time
    stop_event,         \* self.stop_event, TRUE when set
    now,                \* the clock read by time.time() and datetime.now()
    cpc,                \* per caller: "idle", or the line of the method it is at
    calls_left,         \* per caller: calls of start/stop it may still make
    may_call,           \* per caller: the methods it calls
    last_op,            \* per caller: the last call that returned, and how
    tpc,                \* per thread: "unborn", the line of _collection_loop, "done"
    tin,                \* per thread: what the probes of this iteration meet
    tts,                \* per thread: the timestamp of this iteration
    ret,                \* per caller: the last value a method of the collector returned
    locals,             \* per caller: the locals of its get_metrics_summary under way
    config,             \* BenchmarkRunner.config, the loaded YAML file
    selector,           \* args.benchmark: "all", or the group to run
    rpc,                \* the line main / run_all_benchmarks / generate_report is at
    gpc,                \* the line the group run under way is at, or "idle"
    grp,                \* the group whose run_*_benchmarks was called last
    idx,                \* the entry the for loop of the group run is at
    results,            \* results, the local list of the group run
    group_results,      \* training_results, inference_results, stress_results
    finished,           \* the groups whose run has returned, in that order
    all_results,        \* all_results of run_all_benchmarks
    hardware_type,      \* hardware_type of run_all_benchmarks
    report_data,        \* report_data of generate_report
    files,              \* the report files written to the output directory
    invocations,        \* the units called so far: <<group, name>>, in order
    config_file,        \* what is at args.config: a YAML document, or nothing usable
    units,              \* the units of the runner: "shipped", or "stubbed" with stand-ins
    detection,          \* what the hardware detectors meet on this machine
    detector_calls,     \* the detectors called so far, in order
    exc                 \* the exception that has left main, or NoException

collector == <<is_collecting, collection_thread, metrics_data, start_time, stop_event>>
callers == <<cpc, calls_left, may_call, last_op>>
threads == <<tpc, tin, tts>>
runner == <<config, selector, rpc, gpc, grp, idx, results, group_results, finished,
            all_results, hardware_type, report_data, files, invocations,
            config_file, units, detection, detector_calls, exc>>
vars == <<is_collecting, collection_thread, metrics_data, start_time, stop_event,
          now, cpc, calls_left, may_call, last_op, tpc, tin, tts, ret, locals,
          config, selector, rpc, gpc, grp, idx, results, group_results, finished,
          all_results, hardware_type, report_data, files, invocations,
          config_file, units, detection, detector_calls, exc>>

NoInput == NoneVal
NoReturn == [in |-> NoInput, out |-> Returned(NoneVal)]
NoLocals == NoneVal

\* threading.Thread.is_alive()
Alive(t) == t \in Threads /\ tpc[t] \notin {"unborn", "done"}
AliveThreads == {t \in Threads : Alive(t)}
Launched == {t \in Threads : tpc[t] # "unborn"}

(***************************************************************************)
(* BenchmarkRunner (runner.py): configurations, units and results.         *)
(* The YAML mapping of a group keeps the order of the file: it is held as  *)
(* the list of its items, [items |-> <<[name, cfg], ...>>]; the other      *)
(* mappings are records.                                                   *)
(***************************************************************************)
GroupNames == {"training", "inference", "stress"}
\* the statements of run_all_benchmarks, in the order of runner.py:356-374
RunAllBody_StressFirst ==
    <<"detect_356", "start_360", "training_363", "stress_365", "inference_364",
      "stop_368", "merge_371", "report_374">>
RunAllBody_ReportFirst ==
    <<"detect_356", "start_360", "training_363", "inference_364", "stress_365",
      "merge_371", "report_374", "stop_368">>
RunAllBody ==
    <<"detect_356", "start_360", "training_363", "inference_364", "stress_365",
      "stop_368", "merge_371", "report_374">>
\* the statement after `line`; after the last one, the return of line 380
After(line) ==
    LET i == CHOOSE j \in 1..Len(RunAllBody) : RunAllBody[j] = line
    IN  IF i < Len(RunAllBody) THEN RunAllBody[i + 1] ELSE "return_380"
\* the group a statement of run_all_benchmarks runs
GroupAt == [training_363 |-> "training", inference_364 |-> "inference",
            stress_365 |-> "stress"]

OrderedDict(items) == [items |-> items]
Item(name, cfg) == [name |-> name, cfg |-> cfg]
\* an entry: `enabled: true`, `enabled: false`, no `enabled` key, or no mapping
\* at all (`name:` with nothing under it)
EntryConfigs == {[enabled |-> TRUE], [enabled |-> FALSE], EmptyDict, NoneVal}
UnitNames == {"a", "b", "c"}
\* the lists of distinct names
RECURSIVE NameLists(_)
NameLists(names) ==
    {<<>>} \cup UNION {{<<n>> \o rest : rest \in NameLists(names \ {n})} : n \in names}
\* every mapping of a group: its entries in any order, each of any shape
GroupConfigs ==
    UNION {{OrderedDict([i \in 1..Len(ns) |-> Item(ns[i], cfgs[i])]) :
               cfgs \in [1..Len(ns) -> EntryConfigs]} : ns \in NameLists(UnitNames)}

\* the units as shipped return a mock result and raise nothing.  A runner whose
\* _run_single_*_benchmark have been overridden by stand-ins (a subclass, a test
\* double) is what the except clause of a group run is written for: the
\* stand-in called for a returns the result of the shipped unit, the one for b
\* raises an exception with a message, the one for c raises one with no argument
UnitKinds == {"shipped", "stubbed"}
StubRaises == ("b" :> <<"boom">>) @@ ("c" :> <<>>)
\* str(e) of an exception raised with the arguments args
Str(args) == IF args = <<>> THEN "" ELSE args[1]
\* what a unit did: it returned val, or raised an exception with arguments args
UnitReturned(v) == [raised |-> FALSE, val |-> v, args |-> <<>>]
UnitRaised(args) == [raised |-> TRUE, val |-> NoneVal, args |-> args]

\* the metrics of the mock results, in tenths
TrainingMetrics == [throughput |-> 1000, accuracy |-> 955, time |-> 1200]
InferenceMetrics == [throughput |-> 10000, latency |-> 50, time |-> 600]
StressMetrics == [bandwidth |-> 5000, utilization |-> 850, time |-> 3000]
\* BenchmarkRunner._run_single_training_benchmark and its two siblings, as
\* shipped: the result at clock value ts
_run_single_training_benchmark(benchmark_name, ts) ==
    [benchmark_name |-> benchmark_name, type |-> "training", status |-> "success",
     metrics |-> TrainingMetrics, timestamp |-> ts]
_run_single_inference_benchmark(benchmark_name, ts) ==
    [benchmark_name |-> benchmark_name, type |-> "inference", status |-> "success",
     metrics |-> InferenceMetrics, timestamp |-> ts]
_run_single_stress_benchmark(benchmark_name, ts) ==
    [benchmark_name |-> benchmark_name, type |-> "stress", status |-> "success",
     metrics |-> StressMetrics, timestamp |-> ts]
\* the call of the shipped unit of group g for benchmark_name
RunUnit(g, benchmark_name, ts) ==
    UnitReturned(CASE g = "training" -> _run_single_training_benchmark(benchmark_name, ts)
                   [] g = "inference" -> _run_single_inference_benchmark(benchmark_name, ts)
                   [] g = "stress" -> _run_single_stress_benchmark(benchmark_name, ts))
\* self._run_single_<g>_benchmark(benchmark_name, ...) on a runner whose units are
\* of kind u
CallUnit(u, g, benchmark_name, ts) ==
    IF u = "stubbed" /\ benchmark_name \in DOMAIN StubRaises
    THEN UnitRaised(StubRaises[benchmark_name])
    ELSE RunUnit(g, benchmark_name, ts)
\* the dict of the except clause, runner.py:117-122
FailedResult(benchmark_name, args, ts) ==
    [benchmark_name |-> benchmark_name, status |-> "failed",
     error |-> Str(args), timestamp |-> ts]

\* what the hardware detectors meet: torch importable or not, CUDA or not, or
\* failing with another error; lspci listing an Ascend device or not, or failing
Detections == [torch : {"cuda", "no_cuda", "import_error", "error"},
               lspci : {"ascend", "other", "error"}]
\* BenchmarkRunner._detect_nvidia_gpu: only ImportError is caught
_detect_nvidia_gpu(det) ==
    CASE det.torch = "cuda" -> Returned(TRUE)
      [] det.torch = "no_cuda" -> Returned(FALSE)
      [] det.torch = "import_error" -> Returned(FALSE)
      [] det.torch = "error" -> Raised
\* BenchmarkRunner._detect_ascend_npu: every exception is caught
_detect_ascend_npu(det) == Returned(det.lspci = "ascend")
\* what detect_hardware did: it returned val or raised, having called the
\* detectors calls, in that order
Detected(out, calls) == [raised |-> out.raised, val |-> out.val, calls |-> calls]
\* BenchmarkRunner.detect_hardware
detect_hardware(cfg, det) ==
    LET hw == Get(Get(cfg, "hardware", EmptyDict), "type", "auto") IN
    IF hw = "auto"
    THEN LET nvidia == _detect_nvidia_gpu(det) IN
         IF nvidia.raised THEN Detected(Raised, <<"nvidia">>)
         ELSE IF nvidia.val THEN Detected(Returned("nvidia"), <<"nvidia">>)
         ELSE IF _detect_ascend_npu(det).val
              THEN Detected(Returned("ascend"), <<"nvidia", "ascend">>)
              ELSE Detected(Returned("unknown"), <<"nvidia", "ascend">>)
    ELSE Detected(Returned(hw), <<>>)
\* the detectors answer differently from call to call, or as a given machine
AnyDetection == [torch |-> "any", lspci |-> "any"]
DetectionsOf(machine) == IF machine = AnyDetection THEN Detections ELSE {machine}

\* len(results), the filter on the status left out
CountStatus_Unfiltered(rs, status) == Len(rs)
\* len([r for r in results if r.get('status') == status])
CountStatus(rs, status) ==
    Cardinality({i \in 1..Len(rs) : Get(rs[i], "status", "") = status})
\* report_data of generate_report (runner.py:242-251), the hardware being hw
ReportData(rs, hw, ts) ==
    [summary |-> [total_tests |-> Len(rs),
                  successful_tests |-> CountStatus(rs, "success"),
                  failed_tests |-> CountStatus(rs, "failed"),
                  hardware_type |-> hw,
                  timestamp |-> ts],
     results |-> rs]
\* json.dump(report_data, f): the document has the members of report_data, the
\* summary and every result with each of its keys (strings and numbers are
\* written as they are)
JsonDump(data) ==
    [summary |-> [k \in DOMAIN data.summary |-> data.summary[k]],
     results |-> [i \in 1..Len(data.results) |->
                     [k \in DOMAIN data.results[i] |-> data.results[i][k]]]]

\* the replacement fields str.format finds in html_template, in order: the
\* first is the brace of the style sheet, `body { font-family: Arial, ... }`
\* (runner.py:275), then come the named ones of runner.py:290-303
TemplateFields ==
    <<" font-family", "timestamp", "hardware_type", "total_tests",
      "successful_tests", "failed_tests", "success_rate", "results_html">>
\* template.format(**kwargs): KeyError if a replacement field is no keyword;
\* else the text, held as the value put in each field
Format(fields, kwargs) ==
    IF \E i \in 1..Len(fields) : fields[i] \notin DOMAIN kwargs
    THEN Raised
    ELSE Returned([f \in {fields[i] : i \in 1..Len(fields)} |-> kwargs[f]])
\* the <div> of one result (runner.py:311-333)
ResultHtml(result) ==
    [status_class |-> IF Get(result, "status", "Unknown") = "success"
                      THEN "success" ELSE "failed",
     benchmark_name |-> Get(result, "benchmark_name", "Unknown"),
     type |-> Get(result, "type", "Unknown"),
     status |-> Get(result, "status", "Unknown"),
     timestamp |-> Get(result, "timestamp", "Unknown"),
     metrics_html |-> IF HasKey(result, "metrics") THEN result.metrics ELSE EmptyDict]
\* (successful_tests / total_tests * 100) if total_tests > 0 else 0, in tenths
\* of a percent, the digits {success_rate:.1f} prints
SuccessRate(summary) ==
    IF summary.total_tests > 0
    THEN (2 * 1000 * summary.successful_tests + summary.total_tests)
            \div (2 * summary.total_tests)
    ELSE 0
\* BenchmarkRunner._generate_html_report
_generate_html_report(data) ==
    LET results_html == [i \in 1..Len(data.results) |-> ResultHtml(data.results[i])]
        summary == data.summary
        success_rate == SuccessRate(summary)
    IN  Format(TemplateFields,
               [timestamp |-> summary.timestamp,
                hardware_type |-> summary.hardware_type,
                total_tests |-> summary.total_tests,
                successful_tests |-> summary.successful_tests,
                failed_tests |-> summary.failed_tests,
                success_rate |-> success_rate,
                results_html |-> results_html])

\* what is at config_path: a YAML document with this content, no file
\* ("missing"), or a file that is no YAML ("invalid")
ConfigFile(kind, content) == [kind |-> kind, content |-> content]
\* an exception of the given type, raised at a line of runner.py
Exception(type, at) == [type |-> type, at |-> at]
NoException == Exception("none", "none")
\* BenchmarkRunner.load_config with an except clause that gives an empty
\* configuration
load_config_returns_empty(file) ==
    IF file.kind = "yaml" THEN Returned(file.content) ELSE Returned(EmptyDict)
\* BenchmarkRunner.load_config: open and yaml.safe_load; an exception is
\* logged and raised again
load_config(file) ==
    IF file.kind = "yaml" THEN Returned(file.content) ELSE Raised
\* the exception open or yaml.safe_load raises on a file of this kind
LoadError == [missing |-> "FileNotFoundError", invalid |-> "YAMLError"]

NoReport == NoneVal
NoConfig == EmptyDict
\* the runner at a line of main, before any benchmark: the file at
\* args.config, self.config, args.benchmark, the machine, and the results
\* generate_report is called with, if it is
RunnerAt(line, file, cfg, sel, machine, rs) ==
    /\ units \in (IF sel \in GroupNames \cup {"all"} THEN UnitKinds ELSE {"shipped"})
    /\ config = cfg
    /\ selector = sel
    /\ rpc = line
    /\ gpc = "idle"
    /\ grp = "none"
    /\ idx = 0
    /\ results = <<>>
    /\ group_results = [g \in GroupNames |-> <<>>]
    /\ finished = <<>>
    /\ all_results = rs
    /\ hardware_type = "none"
    /\ report_data = NoReport
    /\ files = {}
    /\ invocations = <<>>
    /\ config_file = file
    /\ detection = machine
    /\ detector_calls = <<>>
    /\ exc = NoException
\* BenchmarkRunner.__init__ done with the configuration cfg, and the command line
ConstructRunner(cfg, sel) ==
    RunnerAt("main", ConfigFile("yaml", cfg), cfg, sel, AnyDetection, <<>>)
\* the collector used without a runner
NoRunner == ConstructRunner(NoConfig, "none")

\* MetricsCollector.__init__ ; calls says who calls what, and how often
Construct(calls, methods) ==
    /\ is_collecting = FALSE
    /\ collection_thread = NoThread
    /\ metrics_data = <<>>
    /\ start_time = NoTime
    /\ stop_event = FALSE
    /\ now = 0
    /\ cpc = [c \in Callers |-> "idle"]
    /\ calls_left = calls
    /\ may_call = methods
    /\ last_op = [c \in Callers |-> "none"]
    /\ tpc = [t \in Threads |-> "unborn"]
    /\ tin = [t \in Threads |-> NoInput]
    /\ tts = [t \in Threads |-> 0]
    /\ ret = [c \in Callers |-> NoReturn]
    /\ locals = [c \in Callers |-> NoLocals]

\* one caller, calling start_collection and stop_collection in any order
Init == NoRunner /\ Construct([c \in Callers |-> IF c = "c1" THEN MaxCalls ELSE 0],
                  [c \in Callers |-> {"start", "stop"}])
\* two callers, each calling start_collection once
InitRace == NoRunner /\ Construct([c \in Callers |-> 1], [c \in Callers |-> {"start"}])
\* one caller, calling collect_current_metrics once
InitProbe == NoRunner /\ Construct([c \in Callers |-> IF c = "c1" THEN 1 ELSE 0],
                       [c \in Callers |-> {"collect"}])
\* one caller calling start_collection and stop_collection in any order, and
\* another one calling get_metrics_summary once, at any time
InitSession == NoRunner /\ Construct([c \in Callers |-> IF c = "c1" THEN MaxCalls ELSE 1],
                         [c \in Callers |-> IF c = "c1" THEN {"start", "stop"}
                                                         ELSE {"summary"}])
\* one caller calling start_collection and stop_collection in any order, and
\* another one calling clear_metrics once, at any time
InitClear == NoRunner /\ Construct([c \in Callers |-> IF c = "c1" THEN MaxCalls ELSE 1],
                       [c \in Callers |-> IF c = "c1" THEN {"start", "stop"}
                                                       ELSE {"clear"}])

\* the machines of the samples a summary is taken of: psutil answering or
\* failing, the GPU tool answering or missing, no torch, no NPU tool
SummaryInputs ==
    {in \in ProbeInputs :
        /\ in.smi \in {RunRaised("not_found"), RunExit(0, <<GoodLine>>)}
        /\ in.torch = TorchState("import_error", <<>>)
        /\ in.npu = RunRaised("not_found")}
\* a collector that was never started (st = NoTime), or one whose session,
\* started at st, has ended after n samples; one caller calling
\* get_metrics_summary once
InitSummary ==
    \E n \in 0..MaxSamples, st \in {NoTime, 0, 1} :
      \E ins \in [1..n -> SummaryInputs] :
        /\ st = NoTime => n = 0
        /\ is_collecting = FALSE
        /\ collection_thread = IF st = NoTime THEN NoThread ELSE 1
        /\ metrics_data = [i \in 1..n |-> collect_current_metrics(ins[i], st + i - 1).val]
        /\ start_time = st
        /\ stop_event = (st # NoTime)
        /\ now = IF st = NoTime THEN 0 ELSE st + n
        /\ cpc = [c \in Callers |-> "idle"]
        /\ calls_left = [c \in Callers |-> IF c = "c1" THEN 1 ELSE 0]
        /\ may_call = [c \in Callers |-> {"summary"}]
        /\ last_op = [c \in Callers |-> IF c = "c1" /\ st # NoTime THEN "stop" ELSE "none"]
        /\ tpc = [t \in Threads |-> IF t = 1 /\ st # NoTime THEN "done" ELSE "unborn"]
        /\ tin = [t \in Threads |-> NoInput]
        /\ tts = [t \in Threads |-> 0]
        /\ ret = [c \in Callers |-> NoReturn]
        /\ locals = [c \in Callers |-> NoLocals]
        /\ NoRunner

(***************************************************************************)
(* The summary (metrics.py:221-261).  A quotient of Python's / is held as  *)
(* the fraction [num, den] it is the value of; dividing by zero raises.    *)
(***************************************************************************)
\* a / b
TrueDiv(a, b) == IF b = 0 THEN Raised ELSE Returned([num |-> a, den |-> b])
\* sum(m.get(k, 0) for m in metrics_list), max(m.get(k, 0) for m in metrics_list)
RECURSIVE SumGet(_, _)
SumGet(metrics_list, k) ==
    IF metrics_list = <<>> THEN 0
    ELSE Get(Head(metrics_list), k, 0) + SumGet(Tail(metrics_list), k)
MaxGet(metrics_list, k) ==
    IF metrics_list = <<>> THEN Raised
    ELSE Returned(CHOOSE v \in {Get(metrics_list[i], k, 0) : i \in 1..Len(metrics_list)} :
                    \A i \in 1..Len(metrics_list) : Get(metrics_list[i], k, 0) <= v)

\* MetricsCollector._calculate_average_metrics
_calculate_average_metrics(metrics_list) ==
    IF metrics_list = <<>> THEN Returned(EmptyDict)
    ELSE LET avg_cpu == TrueDiv(SumGet(metrics_list, "cpu_percent"), Len(metrics_list))
             avg_mem == TrueDiv(SumGet(metrics_list, "memory_percent"), Len(metrics_list))
             max_cpu == MaxGet(metrics_list, "cpu_percent")
             max_mem == MaxGet(metrics_list, "memory_percent")
         IN  IF avg_cpu.raised \/ avg_mem.raised \/ max_cpu.raised \/ max_mem.raised
             THEN Raised
             ELSE Returned([avg_cpu_percent |-> avg_cpu.val,
                            avg_memory_percent |-> avg_mem.val,
                            max_cpu_percent |-> max_cpu.val,
                            max_memory_percent |-> max_mem.val])

\* [m[k] for m in data if k in m]
RECURSIVE Section(_, _)
Section(data, k) ==
    IF data = <<>> THEN <<>>
    ELSE IF HasKey(Head(data), k)
         THEN <<Head(data)[k]>> \o Section(Tail(data), k)
         ELSE Section(Tail(data), k)

\* the test of `... if self.start_time else 0`: None is NoTime, and 0.0 is false
\* as None is
StartTimeSet(st) == st # NoTime /\ st # 0

\* the summary dict of metrics.py:239-245: the averages are those of the lists
\* the loop of lines 231-237 has built from the samples it has seen, with the
\* duration of line 240 and the length read at line 241
SummaryOf(seen, duration, total) ==
    LET system == _calculate_average_metrics(Section(seen, "system"))
        gpu == _calculate_average_metrics(Section(seen, "gpu"))
        npu == _calculate_average_metrics(Section(seen, "npu"))
    IN  IF system.raised \/ gpu.raised \/ npu.raised THEN Raised
        ELSE Returned([collection_duration |-> duration,
                       total_samples |-> total,
                       system |-> system.val,
                       gpu |-> gpu.val,
                       npu |-> npu.val])

\* a test that lets the empty list through
SummaryIsEmpty_Never(data) == FALSE
\* if not self.metrics_data
SummaryIsEmpty(data) == data = <<>>

(***************************************************************************)
(* start_collection, line by line (metrics.py:31-47).                      *)
(***************************************************************************)
Goto(c, line) == cpc' = [cpc EXCEPT ![c] = line]
Return(c, how) == /\ cpc' = [cpc EXCEPT ![c] = "idle"]
                  /\ last_op' = [last_op EXCEPT ![c] = how]
Enter(c, method) == /\ cpc[c] = "idle"
                    /\ method \in may_call[c]
                    /\ calls_left[c] > 0
                    /\ calls_left' = [calls_left EXCEPT ![c] = @ - 1]

\* if self.is_collecting: warn and return
start_collection_33(c) ==
    /\ Enter(c, "start")
    /\ IF is_collecting
       THEN Return(c, "start_noop")
       ELSE Goto(c, "start_37") /\ UNCHANGED last_op
    /\ UNCHANGED <<collector, now, may_call, threads, ret, locals, runner>>

\* start_collection that forgets to reset the list
start_collection_37_keeps_samples(c) ==
    /\ cpc[c] = "start_37"
    /\ is_collecting' = TRUE
    /\ Goto(c, "start_39")
    /\ UNCHANGED <<collection_thread, metrics_data, start_time, stop_event,
                   now, calls_left, may_call, last_op, threads, ret, locals, runner>>

\* self.is_collecting = True; self.metrics_data = []
\* (no other thread or caller reads or writes between the two lines what they write)
start_collection_37(c) ==
    /\ cpc[c] = "start_37"
    /\ is_collecting' = TRUE
    /\ metrics_data' = <<>>
    /\ Goto(c, "start_39")
    /\ UNCHANGED <<collection_thread, start_time, stop_event,
                   now, calls_left, may_call, last_op, threads, ret, locals, runner>>

\* the Thread object caller c makes at line 43, until it is started; a thread
\* that has been started is one of Threads, numbered in the order of the starts
Unstarted(c) == IF c = "c1" THEN -1 ELSE -2
IsUnstarted(t) == t < NoThread
\* the number the next thread to be started gets
NewThread == Cardinality(Launched) + 1

\* self.start_time = time.time()
start_collection_39(c) ==
    /\ cpc[c] = "start_39"
    /\ start_time' = now
    /\ Goto(c, "start_40")
    /\ UNCHANGED <<is_collecting, collection_thread, metrics_data, stop_event,
                   now, calls_left, may_call, last_op, threads, ret, locals, runner>>

\* self.stop_event.clear()
start_collection_40(c) ==
    /\ cpc[c] = "start_40"
    /\ stop_event' = FALSE
    /\ Goto(c, "start_43")
    /\ UNCHANGED <<is_collecting, collection_thread, metrics_data, start_time,
                   now, calls_left, may_call, last_op, threads, ret, locals, runner>>

\* self.collection_thread = threading.Thread(target=self._collection_loop)
start_collection_43(c) ==
    /\ cpc[c] = "start_43"
    /\ collection_thread' = Unstarted(c)
    /\ Goto(c, "start_44")
    /\ UNCHANGED <<is_collecting, metrics_data, start_time, stop_event,
                   now, calls_left, may_call, last_op, threads, ret, locals, runner>>

\* self.collection_thread.daemon = True: the attribute is read again, and the
\* thread it holds by now may be one another caller has already started:
\* RuntimeError, cannot set daemon status of active thread
start_collection_44(c) ==
    /\ cpc[c] = "start_44"
    /\ IF IsUnstarted(collection_thread)
       THEN Goto(c, "start_45") /\ UNCHANGED last_op
       ELSE Return(c, "start_raised_44")
    /\ UNCHANGED <<collector, now, calls_left, may_call, threads, ret, locals, runner>>

\* self.collection_thread.start(): the attribute is read once more; a thread
\* that has been started raises RuntimeError, threads can only be started once
start_collection_45(c) ==
    /\ cpc[c] = "start_45"
    /\ IF IsUnstarted(collection_thread)
       THEN /\ NewThread \in Threads
            /\ collection_thread' = NewThread
            /\ tpc' = [tpc EXCEPT ![NewThread] = "loop_65"]
            /\ Return(c, "start")
       ELSE /\ Return(c, "start_raised_45")
            /\ UNCHANGED <<collection_thread, tpc>>
    /\ UNCHANGED <<is_collecting, metrics_data, start_time, stop_event,
                   now, calls_left, may_call, tin, tts, ret, locals, runner>>

start_collection(c) ==
    \/ start_collection_33(c)
    \/ start_collection_37(c)
    \/ start_collection_39(c)
    \/ start_collection_40(c)
    \/ start_collection_43(c)
    \/ start_collection_44(c)
    \/ start_collection_45(c)

(***************************************************************************)
(* stop_collection, line by line (metrics.py:49-61).                       *)
(***************************************************************************)
\* stop_collection without its guard
stop_collection_51_unguarded(c) ==
    /\ Enter(c, "stop")
    /\ Goto(c, "stop_55")
    /\ UNCHANGED <<collector, now, may_call, last_op, threads, ret, locals, runner>>

\* if not self.is_collecting: warn and return
stop_collection_51(c) ==
    /\ Enter(c, "stop")
    /\ IF ~is_collecting
       THEN Return(c, "stop_noop")
       ELSE Goto(c, "stop_55") /\ UNCHANGED last_op
    /\ UNCHANGED <<collector, now, may_call, threads, ret, locals, runner>>

\* self.is_collecting = False; self.stop_event.set()
stop_collection_55(c) ==
    /\ cpc[c] = "stop_55"
    /\ is_collecting' = FALSE
    /\ stop_event' = TRUE
    /\ Goto(c, "stop_58")
    /\ UNCHANGED <<collection_thread, metrics_data, start_time,
                   now, calls_left, may_call, last_op, threads, ret, locals, runner>>

\* Thread.join(timeout=5) returns when the thread has ended, or when the timeout
\* has expired with the thread still alive: the thread is then left running
JoinEnded(t) == ~Alive(t)
\* join() with no timeout never gives up
JoinNeverTimesOut(t) == FALSE
JoinTimedOut(t) == Alive(t)
Join(t) == JoinEnded(t) \/ JoinTimedOut(t)

\* if self.collection_thread: self.collection_thread.join(timeout=5)
\* (join raises RuntimeError on a thread that has not been started)
stop_collection_58(c) ==
    /\ cpc[c] = "stop_58"
    /\ IF IsUnstarted(collection_thread)
       THEN Return(c, "stop_raised_58")
       ELSE /\ collection_thread # NoThread => Join(collection_thread)
            /\ Return(c, "stop")
    /\ UNCHANGED <<collector, now, calls_left, may_call, threads, ret, locals, runner>>

stop_collection(c) ==
    \/ stop_collection_51(c)
    \/ stop_collection_55(c)
    \/ stop_collection_58(c)

(***************************************************************************)
(* _collection_loop, run by a sampling thread (metrics.py:63-72).          *)
(***************************************************************************)
\* a loop that never tests the event: while True
LoopExits_Never == FALSE
\* while not self.stop_event.is_set()
LoopExits == stop_event
_collection_loop_65(t) ==
    /\ tpc[t] = "loop_65"
    /\ IF LoopExits
       THEN tpc' = [tpc EXCEPT ![t] = "done"]
       ELSE /\ Len(metrics_data) < MaxSamples
            /\ now < MaxTime
            /\ tpc' = [tpc EXCEPT ![t] = "collect_67"]
    /\ UNCHANGED <<collector, now, callers, tin, tts, ret, locals, runner>>

\* a loop with no except clause: the exception ends the thread
AfterCollect_uncaught(result) == IF result.raised THEN "done" ELSE "append_68"
\* where the loop goes when collect_current_metrics has returned or raised
AfterCollect(result) == IF result.raised THEN "sleep_72" ELSE "append_68"

\* metrics = self.collect_current_metrics()
\* (datetime.now() has microsecond resolution and the iterations are a sleep
\* apart: no two of them read the same time, the clock is past what was read)
_collection_loop_67(t) ==
    /\ tpc[t] = "collect_67"
    /\ \E in \in LifecycleInputs :
         /\ tin' = [tin EXCEPT ![t] = in]
         /\ tts' = [tts EXCEPT ![t] = now]
         /\ tpc' = [tpc EXCEPT ![t] = AfterCollect(collect_current_metrics(in, now))]
    /\ now' = now + 1
    /\ UNCHANGED <<collector, callers, ret, locals, runner>>

\* self.metrics_data.append(metrics)
_collection_loop_68(t) ==
    /\ tpc[t] = "append_68"
    /\ metrics_data' = Append(metrics_data, collect_current_metrics(tin[t], tts[t]).val)
    /\ tpc' = [tpc EXCEPT ![t] = "sleep_69"]
    /\ tin' = [tin EXCEPT ![t] = NoInput]
    /\ tts' = [tts EXCEPT ![t] = 0]
    /\ UNCHANGED <<is_collecting, collection_thread, start_time, stop_event,
                   now, callers, ret, locals, runner>>

\* time.sleep(self.collection_interval)
_collection_loop_69(t) ==
    /\ tpc[t] = "sleep_69"
    /\ tpc' = [tpc EXCEPT ![t] = "loop_65"]
    /\ UNCHANGED <<collector, now, callers, tin, tts, ret, locals, runner>>

\* except Exception: log, time.sleep(self.collection_interval)
_collection_loop_72(t) ==
    /\ tpc[t] = "sleep_72"
    /\ tpc' = [tpc EXCEPT ![t] = "loop_65"]
    /\ tin' = [tin EXCEPT ![t] = NoInput]
    /\ tts' = [tts EXCEPT ![t] = 0]
    /\ UNCHANGED <<collector, now, callers, ret, locals, runner>>

_collection_loop(t) ==
    \/ _collection_loop_65(t)
    \/ _collection_loop_67(t)
    \/ _collection_loop_68(t)
    \/ _collection_loop_69(t)
    \/ _collection_loop_72(t)

\* MetricsCollector.clear_metrics, called by c: self.metrics_data = [] and a
\* log line (metrics.py:277-280); it tests nothing, is_collecting least of all
clear_metrics(c) ==
    /\ Enter(c, "clear")
    /\ metrics_data' = <<>>
    /\ Return(c, "clear")
    /\ UNCHANGED <<is_collecting, collection_thread, start_time, stop_event,
                   now, may_call, threads, ret, locals, runner>>

\* time passes
Tick ==
    /\ now < MaxTime
    /\ now' = now + 1
    /\ UNCHANGED <<collector, callers, threads, ret, locals, runner>>

\* a caller calls collect_current_metrics() itself
CallCollectCurrentMetrics(c) ==
    /\ Enter(c, "collect")
    /\ \E in \in ProbeInputs :
         ret' = [ret EXCEPT ![c] = [in |-> in, out |-> collect_current_metrics(in, now)]]
    /\ UNCHANGED <<collector, now, cpc, may_call, last_op, threads, locals, runner>>

(***************************************************************************)
(* get_metrics_summary, read by read (metrics.py:221-247): it takes no     *)
(* lock, and the sampling thread or a start_collection may run between     *)
(* any two of its reads of the collector.                                  *)
(***************************************************************************)
SetLocals(c, v) == locals' = [locals EXCEPT ![c] = v]
\* the call returns v
ReturnValue(c, v) ==
    /\ ret' = [ret EXCEPT ![c] = [in |-> NoInput, out |-> v]]
    /\ cpc' = [cpc EXCEPT ![c] = "idle"]
    /\ SetLocals(c, NoLocals)

\* if not self.metrics_data: return {}
get_metrics_summary_223(c) ==
    /\ Enter(c, "summary")
    /\ IF SummaryIsEmpty(metrics_data)
       THEN ReturnValue(c, Returned(EmptyDict))
       ELSE Goto(c, "summary_231") /\ UNCHANGED <<ret, locals>>
    /\ UNCHANGED <<collector, now, may_call, last_op, threads, runner>>

\* for metrics in self.metrics_data: ... (lines 231-237).  The loop runs over
\* the list object it read; that list only grows, by appends, until the loop
\* finds it exhausted, and is left as it is once start_collection has put a
\* new list in its place: what the loop has seen is self.metrics_data as it
\* was at one moment of the loop, the moment of this step
get_metrics_summary_231(c) ==
    /\ cpc[c] = "summary_231"
    /\ SetLocals(c, [seen |-> metrics_data])
    /\ Goto(c, "summary_240")
    /\ UNCHANGED <<collector, now, calls_left, may_call, last_op, threads, ret, runner>>

\* time.time() - self.start_time if self.start_time else 0: the test
get_metrics_summary_240(c) ==
    /\ cpc[c] = "summary_240"
    /\ IF StartTimeSet(start_time)
       THEN Goto(c, "summary_240_time") /\ UNCHANGED locals
       ELSE /\ Goto(c, "summary_241")
            /\ SetLocals(c, [seen |-> locals[c].seen, duration |-> 0])
    /\ UNCHANGED <<collector, now, calls_left, may_call, last_op, threads, ret, runner>>

\* time.time() - self.start_time: the clock is read
get_metrics_summary_240_time(c) ==
    /\ cpc[c] = "summary_240_time"
    /\ SetLocals(c, [seen |-> locals[c].seen, time |-> now])
    /\ Goto(c, "summary_240_start")
    /\ UNCHANGED <<collector, now, calls_left, may_call, last_op, threads, ret, runner>>

\* time.time() - self.start_time: self.start_time is read again and subtracted
get_metrics_summary_240_start(c) ==
    /\ cpc[c] = "summary_240_start"
    /\ SetLocals(c, [seen |-> locals[c].seen, duration |-> locals[c].time - start_time])
    /\ Goto(c, "summary_241")
    /\ UNCHANGED <<collector, now, calls_left, may_call, last_op, threads, ret, runner>>

\* 'total_samples': len(self.metrics_data), the averages of the lists the loop
\* has built, and return summary (lines 241-247)
get_metrics_summary_241(c) ==
    /\ cpc[c] = "summary_241"
    /\ ReturnValue(c, SummaryOf(locals[c].seen, locals[c].duration, Len(metrics_data)))
    /\ UNCHANGED <<collector, now, calls_left, may_call, last_op, threads, runner>>

get_metrics_summary(c) ==
    \/ get_metrics_summary_223(c)
    \/ get_metrics_summary_231(c)
    \/ get_metrics_summary_240(c)
    \/ get_metrics_summary_240_time(c)
    \/ get_metrics_summary_240_start(c)
    \/ get_metrics_summary_241(c)

(***************************************************************************)
(* BenchmarkRunner: main, run_all_benchmarks, the group runs and           *)
(* generate_report, statement by statement.  The runner is caller c1 of    *)
(* its collector.                                                          *)
(***************************************************************************)
Orchestrator == "c1"
rcfg == <<config, selector, config_file, units, detection>>
rdet == <<detector_calls, exc>>
gloc == <<grp, idx, results, invocations>>
rout == <<group_results, finished>>
rrep == <<all_results, hardware_type, report_data, files>>
outside == <<collector, now, callers, threads, ret, locals>>

\* a run of every group, over configurations of every kind: entries enabled,
\* disabled and defaulted with units that return and raise; no benchmarks at
\* all; a group missing; a group that is no mapping
RunConfigs ==
    { [benchmarks |->
         [training |-> OrderedDict(<<Item("a", [enabled |-> TRUE]),
                                     Item("b", [enabled |-> FALSE])>>),
          inference |-> OrderedDict(<<Item("a", EmptyDict)>>),
          stress |-> OrderedDict(<<Item("b", [enabled |-> TRUE])>>)]],
      [hardware |-> [type |-> "auto"]],
      [hardware |-> [type |-> "ascend"],
       benchmarks |->
         [training |-> OrderedDict(<<Item("b", [enabled |-> TRUE]),
                                     Item("a", EmptyDict)>>),
          stress |-> OrderedDict(<<Item("c", [enabled |-> TRUE]),
                                   Item("a", [enabled |-> FALSE])>>)]],
      [benchmarks |->
         [training |-> OrderedDict(<<Item("a", [enabled |-> TRUE])>>),
          inference |-> NoneVal]] }
\* main with --benchmark all
InitRun ==
    /\ Construct([c \in Callers |-> 0], [c \in Callers |-> {}])
    /\ \E cfg \in RunConfigs : ConstructRunner(cfg, "all")
\* main with --benchmark training, inference or stress, the group being any
\* mapping, no mapping, or missing from the file
InitGroup ==
    /\ Construct([c \in Callers |-> 0], [c \in Callers |-> {}])
    /\ \E g \in GroupNames :
         \/ \E gc \in GroupConfigs \cup {NoneVal} :
              ConstructRunner([benchmarks |-> (g :> gc)], g)
         \/ ConstructRunner([hardware |-> [type |-> "auto"]], g)

\* the results a group run records: what the unit of an entry returned, or the
\* dict of the except clause
RecordedResults ==
    {IF CallUnit(u, g, n, 0).raised THEN FailedResult(n, CallUnit(u, g, n, 0).args, 0)
                                   ELSE CallUnit(u, g, n, 0).val :
        u \in UnitKinds, g \in GroupNames, n \in UnitNames}
ResultLists == UNION {[1..n -> RecordedResults] : n \in 0..MaxResults}
ReportConfigs == {[hardware |-> [type |-> "auto"]], [hardware |-> [type |-> "ascend"]]}
\* generate_report(rs) called on a runner, with any list of recorded results
InitReport ==
    /\ Construct([c \in Callers |-> 0], [c \in Callers |-> {}])
    /\ \E rs \in ResultLists, cfg \in ReportConfigs :
         RunnerAt("report_374", ConfigFile("yaml", cfg), cfg, "none", AnyDetection, rs)

\* hardware.type explicit, auto, or left out with or without its section
DetectConfigs ==
    { EmptyDict, [hardware |-> EmptyDict], [hardware |-> [type |-> "auto"]],
      [hardware |-> [type |-> "nvidia"]], [hardware |-> [type |-> "ascend"]],
      [hardware |-> [type |-> "cpu"]] }
\* detect_hardware() called on a runner, on any machine
InitDetect ==
    /\ Construct([c \in Callers |-> 0], [c \in Callers |-> {}])
    /\ \E cfg \in DetectConfigs, det \in Detections :
         RunnerAt("detect", ConfigFile("yaml", cfg), cfg, "none", det, <<>>)
\* a call of detect_hardware: it returns the hardware type, or raises
CallDetectHardware ==
    /\ rpc = "detect"
    /\ \E det \in DetectionsOf(detection) :
         LET h == detect_hardware(config, det) IN
         /\ detector_calls' = detector_calls \o h.calls
         /\ IF h.raised
            THEN /\ rpc' = "raised"
                 /\ exc' = Exception("RuntimeError", "detect")
                 /\ UNCHANGED hardware_type
            ELSE rpc' = "detected" /\ hardware_type' = h.val /\ UNCHANGED exc
    /\ UNCHANGED <<rcfg, gpc, gloc, rout, all_results, report_data, files, outside>>

\* the configurations main is run with: every unit failing; units succeeding,
\* failing and disabled; an entry with nothing under its name
MainConfigs ==
    { [benchmarks |->
         [training |-> OrderedDict(<<Item("b", [enabled |-> TRUE]), Item("c", EmptyDict)>>),
          stress |-> OrderedDict(<<Item("c", [enabled |-> TRUE])>>)]],
      [hardware |-> [type |-> "nvidia"],
       benchmarks |->
         [training |-> OrderedDict(<<Item("a", EmptyDict), Item("b", [enabled |-> FALSE])>>),
          inference |-> OrderedDict(<<Item("b", EmptyDict)>>)]],
      [benchmarks |->
         [training |-> OrderedDict(<<Item("a", NoneVal)>>)]] }
ConfigFiles ==
    {ConfigFile("yaml", cfg) : cfg \in MainConfigs}
        \cup {ConfigFile("missing", NoConfig), ConfigFile("invalid", NoConfig)}
Selectors == GroupNames \cup {"all"}
\* main is started: --config names any of the files, --benchmark any selector
InitMain ==
    /\ Construct([c \in Callers |-> 0], [c \in Callers |-> {}])
    /\ \E file \in ConfigFiles, sel \in Selectors :
         RunnerAt("main_400", file, NoConfig, sel, AnyDetection, <<>>)

\* what creating the output directory and the log file in it meets
OutputDirs == {"ok", "mkdir_error", "log_error"}
\* main: runner = BenchmarkRunner(args.config, args.output), that is
\* BenchmarkRunner.__init__: load_config, MetricsCollector(), mkdir, setup_logging
main_400 ==
    /\ rpc = "main_400"
    /\ LET loaded == load_config(config_file) IN
       IF loaded.raised
       THEN /\ rpc' = "raised"
            /\ exc' = Exception(LoadError[config_file.kind], "load_config_33")
            /\ UNCHANGED config
       ELSE /\ config' = loaded.val
            /\ \E dir \in OutputDirs :
                 CASE dir = "ok" -> rpc' = "main" /\ UNCHANGED exc
                   [] dir = "mkdir_error" ->
                        rpc' = "raised" /\ exc' = Exception("OSError", "mkdir_37")
                   [] dir = "log_error" ->
                        rpc' = "raised" /\ exc' = Exception("OSError", "setup_logging_56")
    /\ UNCHANGED <<selector, config_file, units, detection, detector_calls, gpc, gloc,
                   rout, rrep, outside>>

\* main: runner.run_all_benchmarks(), or one of the group runs (runner.py:403-410)
main_403 ==
    /\ rpc = "main"
    /\ selector # "none"
    /\ rpc' = IF selector = "all" THEN RunAllBody[1] ELSE "main_group"
    /\ UNCHANGED <<rcfg, rdet, gpc, gloc, rout, rrep, outside>>

\* hardware_type = self.detect_hardware()
RunAll_356 ==
    /\ rpc = "detect_356"
    /\ \E det \in DetectionsOf(detection) :
         LET h == detect_hardware(config, det) IN
         /\ detector_calls' = detector_calls \o h.calls
         /\ IF h.raised
            THEN /\ rpc' = "raised"
                 /\ exc' = Exception("RuntimeError", "detect_356")
                 /\ UNCHANGED hardware_type
            ELSE rpc' = After(rpc) /\ hardware_type' = h.val /\ UNCHANGED exc
    /\ UNCHANGED <<rcfg, gpc, gloc, rout, all_results, report_data, files, outside>>

\* run_all_benchmarks calls a method of its collector, and goes on when the
\* method has returned
CollectorCall(line, method) ==
    /\ rpc = line
    /\ may_call[Orchestrator] = {}
    /\ cpc[Orchestrator] = "idle"
    /\ may_call' = [may_call EXCEPT ![Orchestrator] = {method}]
    /\ calls_left' = [calls_left EXCEPT ![Orchestrator] = 1]
    /\ UNCHANGED <<collector, now, cpc, last_op, threads, ret, locals, runner>>
CollectorReturn(line, method) ==
    /\ rpc = line
    /\ may_call[Orchestrator] = {method}
    /\ calls_left[Orchestrator] = 0
    /\ cpc[Orchestrator] = "idle"
    /\ may_call' = [may_call EXCEPT ![Orchestrator] = {}]
    /\ rpc' = After(rpc)
    /\ UNCHANGED <<rcfg, rdet, gpc, gloc, rout, rrep,
                   collector, now, cpc, calls_left, last_op, threads, ret, locals>>
\* self.metrics_collector.start_collection()
RunAll_360 ==
    \/ CollectorCall("start_360", "start")
    \/ CollectorReturn("start_360", "start")
\* self.metrics_collector.stop_collection()
RunAll_368 ==
    \/ CollectorCall("stop_368", "stop")
    \/ CollectorReturn("stop_368", "stop")

\* self.config.get('benchmarks', {}).get('training', {})
GroupConfig(cfg, g) == Get(Get(cfg, "benchmarks", EmptyDict), g, OrderedDict(<<>>))
\* benchmark_config.get('enabled', True), with an absent key read as disabled
IsEnabled_DefaultFalse(benchmark_config) == Get(benchmark_config, "enabled", FALSE)
\* benchmark_config.get('enabled', True)
IsEnabled(benchmark_config) == Get(benchmark_config, "enabled", TRUE)
\* the run of group g is called: by run_all_benchmarks at its line, or by main
Calls(g) ==
    \/ selector = "all" /\ rpc \in DOMAIN GroupAt /\ GroupAt[rpc] = g
    \/ selector = g /\ rpc = "main_group"
\* the entry the for loop is at
Entry == GroupConfig(config, grp).items[idx]

\* run_training_benchmarks (and run_inference_benchmarks, run_stress_benchmarks):
\* training_config = ...; results = []; for ... in training_config.items()
\* (.items() of a group that is no mapping raises AttributeError)
run_benchmarks_101(g) ==
    /\ gpc = "idle"
    /\ Calls(g)
    /\ IF GroupConfig(config, g) = NoneVal
       THEN /\ rpc' = "raised"
            /\ exc' = Exception("AttributeError", "items_104")
            /\ UNCHANGED gpc
       ELSE gpc' = "for_104" /\ UNCHANGED <<rpc, exc>>
    /\ grp' = g
    /\ idx' = 1
    /\ results' = <<>>
    /\ UNCHANGED <<rcfg, detector_calls, invocations, rout, rrep, outside>>

\* the next entry, if any; if not benchmark_config.get('enabled', True): continue
\* (.get of an entry that is no mapping raises AttributeError, outside the try)
run_benchmarks_104 ==
    /\ gpc = "for_104"
    /\ IF idx > Len(GroupConfig(config, grp).items)
       THEN gpc' = "return_124" /\ UNCHANGED <<rpc, idx, exc>>
       ELSE IF Entry.cfg = NoneVal
            THEN /\ gpc' = "idle"
                 /\ rpc' = "raised"
                 /\ exc' = Exception("AttributeError", "get_105")
                 /\ UNCHANGED idx
            ELSE IF ~IsEnabled(Entry.cfg)
                 THEN idx' = idx + 1 /\ UNCHANGED <<rpc, gpc, exc>>
                 ELSE gpc' = "call_112" /\ UNCHANGED <<rpc, idx, exc>>
    /\ UNCHANGED <<rcfg, detector_calls, grp, results, invocations, rout, rrep,
                   outside>>

\* result = self._run_single_training_benchmark(...): the unit is called
run_benchmarks_112 ==
    /\ gpc = "call_112"
    /\ gpc' = "unit_112"
    /\ invocations' = Append(invocations, <<grp, Entry.name>>)
    /\ UNCHANGED <<rcfg, rdet, rpc, grp, idx, results, rout, rrep, outside>>

\* the unit returns and its result is appended, or it raises and the except
\* clause appends the failed result (runner.py:113, 117-122)
run_benchmarks_113 ==
    /\ gpc = "unit_112"
    /\ LET out == CallUnit(units, grp, Entry.name, now) IN
       results' = Append(results, IF out.raised
                                  THEN FailedResult(Entry.name, out.args, now)
                                  ELSE out.val)
    /\ idx' = idx + 1
    /\ gpc' = "for_104"
    /\ UNCHANGED <<rcfg, rdet, rpc, grp, invocations, rout, rrep, outside>>

\* return results: to run_all_benchmarks, which goes to its next statement, or
\* to main
run_benchmarks_124 ==
    /\ gpc = "return_124"
    /\ group_results' = [group_results EXCEPT ![grp] = results]
    /\ finished' = Append(finished, grp)
    /\ gpc' = "idle"
    /\ rpc' = IF selector = "all" THEN After(rpc) ELSE "returned"
    /\ UNCHANGED <<rcfg, rdet, gloc, rrep, outside>>

run_training_benchmarks == run_benchmarks_101("training")
run_inference_benchmarks == run_benchmarks_101("inference")
run_stress_benchmarks == run_benchmarks_101("stress")
run_benchmarks ==
    \/ run_benchmarks_104
    \/ run_benchmarks_112
    \/ run_benchmarks_113
    \/ run_benchmarks_124

\* all_results = training_results + inference_results + stress_results
RunAll_371 ==
    /\ rpc = "merge_371"
    /\ all_results' = group_results["training"] \o group_results["inference"]
                        \o group_results["stress"]
    /\ rpc' = After(rpc)
    /\ UNCHANGED <<rcfg, rdet, gpc, gloc, rout, hardware_type, report_data, files,
                   outside>>

\* the clock shows seconds to strftime: two readings of the clock give the same
\* text when no second has begun between them
TicksPerSecond == 2
\* datetime.now().strftime('%Y%m%d_%H%M%S')
Strftime(t) == t \div TicksPerSecond
\* self.output_dir / f"benchmark_report_{datetime.now().strftime(...)}.<ext>"
ReportFile(ext, t) == [ext |-> ext, suffix |-> Strftime(t)]
\* a report file of that extension is in the output directory
Written(ext) == \E f \in files : f.ext = ext

\* generate_report(all_results): report_data = {...}, which calls detect_hardware
generate_report_242 ==
    /\ rpc = "report_374"
    /\ \E det \in DetectionsOf(detection) :
         LET h == detect_hardware(config, det) IN
         /\ detector_calls' = detector_calls \o h.calls
         /\ IF h.raised
            THEN /\ rpc' = "raised"
                 /\ exc' = Exception("RuntimeError", "detect_247")
                 /\ UNCHANGED report_data
            ELSE /\ rpc' = "json_254"
                 /\ report_data' = ReportData(all_results, h.val, now)
                 /\ UNCHANGED exc
    /\ UNCHANGED <<rcfg, gpc, gloc, rout, all_results, hardware_type, files, outside>>

\* with open(json_report, 'w') as f: json.dump(report_data, f): written, or OSError
generate_report_254 ==
    /\ rpc = "json_254"
    /\ \E io \in {"ok", "os_error"} :
         IF io = "ok"
         THEN rpc' = "html_259" /\ files' = files \cup {ReportFile("json", now)} /\ UNCHANGED exc
         ELSE /\ rpc' = "raised"
              /\ exc' = Exception("OSError", "open_255")
              /\ UNCHANGED files
    /\ UNCHANGED <<rcfg, detector_calls, gpc, gloc, rout, all_results, hardware_type,
                   report_data, outside>>

\* html_report = self._generate_html_report(report_data), then the HTML file
generate_report_259 ==
    /\ rpc = "html_259"
    /\ IF _generate_html_report(report_data).raised
       THEN /\ rpc' = "raised"
            /\ exc' = Exception("KeyError", "format_339")
            /\ UNCHANGED files
       ELSE \E io \in {"ok", "os_error"} :
              IF io = "ok"
              THEN /\ rpc' = After("report_374")
                   /\ files' = files \cup {ReportFile("html", now)}
                   /\ UNCHANGED exc
              ELSE /\ rpc' = "raised"
                   /\ exc' = Exception("OSError", "open_261")
                   /\ UNCHANGED files
    /\ UNCHANGED <<rcfg, detector_calls, gpc, gloc, rout, all_results, hardware_type,
                   report_data, outside>>

generate_report ==
    \/ generate_report_242
    \/ generate_report_254
    \/ generate_report_259

run_all_benchmarks ==
    \/ RunAll_356
    \/ RunAll_360
    \/ run_training_benchmarks
    \/ run_inference_benchmarks
    \/ run_stress_benchmarks
    \/ run_benchmarks
    \/ RunAll_368
    \/ RunAll_371
    \/ generate_report

Next ==
    \/ \E c \in Callers : start_collection(c)
    \/ \E c \in Callers : stop_collection(c)
    \/ \E t \in Threads : _collection_loop(t)
    \/ Tick

\* the callers only start the collector
NextRace ==
    \/ \E c \in Callers : start_collection(c)
    \/ \E t \in Threads : _collection_loop(t)
    \/ Tick

\* the caller only takes samples itself
NextProbe ==
    \/ \E c \in Callers : CallCollectCurrentMetrics(c)
    \/ Tick

\* a session is run while another caller asks for the summary
NextSession ==
    \/ \E c \in Callers : start_collection(c)
    \/ \E c \in Callers : stop_collection(c)
    \/ \E t \in Threads : _collection_loop(t)
    \/ \E c \in Callers : get_metrics_summary(c)
    \/ Tick

\* a session is run while another caller clears the metrics
NextClear ==
    \/ \E c \in Callers : start_collection(c)
    \/ \E c \in Callers : stop_collection(c)
    \/ \E t \in Threads : _collection_loop(t)
    \/ \E c \in Callers : clear_metrics(c)
    \/ Tick

\* the caller only asks for the summary
NextSummary ==
    \/ \E c \in Callers : get_metrics_summary(c)
    \/ Tick

\* main runs every group, with the collector sampling
NextRun ==
    \/ main_403
    \/ run_all_benchmarks
    \/ \E c \in Callers : start_collection(c)
    \/ \E c \in Callers : stop_collection(c)
    \/ \E t \in Threads : _collection_loop(t)
    \/ Tick

\* main from its first line, with the collector sampling
NextMain ==
    \/ main_400
    \/ main_403
    \/ run_all_benchmarks
    \/ \E c \in Callers : start_collection(c)
    \/ \E c \in Callers : stop_collection(c)
    \/ \E t \in Threads : _collection_loop(t)
    \/ Tick

\* detect_hardware is called on its own
NextDetect ==
    \/ CallDetectHardware
    \/ Tick

\* generate_report is called on its own
NextReport ==
    \/ generate_report
    \/ Tick

\* main runs one group
NextGroup ==
    \/ main_403
    \/ run_training_benchmarks
    \/ run_inference_benchmarks
    \/ run_stress_benchmarks
    \/ run_benchmarks
    \/ Tick

Spec == Init /\ [][Next]_vars
SpecSession == InitSession /\ [][NextSession]_vars
SpecSummary == InitSummary /\ [][NextSummary]_vars
SpecClear == InitClear /\ [][NextClear]_vars
SpecRun == InitRun /\ [][NextRun]_vars
SpecGroup == InitGroup /\ [][NextGroup]_vars
SpecReport == InitReport /\ [][NextReport]_vars
SpecMain == InitMain /\ [][NextMain]_vars
SpecDetect == InitDetect /\ [][NextDetect]_vars
SpecRace == InitRace /\ [][NextRace]_vars
SpecProbe == InitProbe /\ [][NextProbe]_vars

\* The loop without end.  Past MaxTime the clock of the model stands still,
\* and on a list that is full only the iterations whose probe raises are
\* followed: the thread goes round lines 65, 67 and 72 (or 68 and 69 while
\* the list has room) for as long as the event is clear.
\* while not self.stop_event.is_set(), found clear past the bounds
_collection_loop_65_late(t) ==
    /\ tpc[t] = "loop_65"
    /\ ~LoopExits
    /\ ~(Len(metrics_data) < MaxSamples /\ now < MaxTime)
    /\ tpc' = [tpc EXCEPT ![t] = "collect_67"]
    /\ UNCHANGED <<collector, now, callers, tin, tts, ret, locals, runner>>

\* metrics = self.collect_current_metrics(), called at the end of the clock
_collection_loop_67_late(t) ==
    /\ tpc[t] = "collect_67"
    /\ now >= MaxTime
    /\ \E in \in LifecycleInputs :
         /\ Len(metrics_data) >= MaxSamples => collect_current_metrics(in, now).raised
         /\ tin' = [tin EXCEPT ![t] = in]
         /\ tts' = [tts EXCEPT ![t] = now]
         /\ tpc' = [tpc EXCEPT ![t] = AfterCollect(collect_current_metrics(in, now))]
    /\ UNCHANGED <<collector, now, callers, ret, locals, runner>>

\* a step of the loop of thread t, with no end to its iterations
LoopStep(t) ==
    \/ _collection_loop_65(t)
    \/ _collection_loop_65_late(t)
    \/ now < MaxTime /\ _collection_loop_67(t)
    \/ _collection_loop_67_late(t)
    \/ _collection_loop_68(t)
    \/ _collection_loop_69(t)
    \/ _collection_loop_72(t)

\* the collector is started and stopped while its threads sample without end
NextLive ==
    \/ \E c \in Callers : start_collection(c)
    \/ \E c \in Callers : stop_collection(c)
    \/ \E t \in Threads : LoopStep(t)
    \/ Tick

\* a sampling thread is a daemon thread of the interpreter: once started it is
\* scheduled again and again, and a probe or a sleep it is in returns
ThreadsRun ==
    \A t \in Threads : WF_vars(LoopStep(t))
SpecLive == Init /\ [][NextLive]_vars /\ ThreadsRun

(***************************************************************************)
(* Properties.                                                             *)
(***************************************************************************)
Idle == \A c \in Callers : cpc[c] = "idle"
\* the step is caller c calling start_collection / stop_collection
IsStartCall(c) ==
    /\ cpc[c] = "idle"
    /\ calls_left'[c] # calls_left[c]
    /\ cpc'[c] = "start_37" \/ (cpc'[c] = "idle" /\ last_op'[c] = "start_noop")
IsStopCall(c) ==
    /\ cpc[c] = "idle"
    /\ calls_left'[c] # calls_left[c]
    /\ cpc'[c] = "stop_55" \/ (cpc'[c] = "idle" /\ last_op'[c] = "stop_noop")
\* caller c leaves line `line`
Leaves(c, line) == cpc[c] = line /\ cpc'[c] # line
\* the last call that returned was a stop_collection, and no call is under way
StopReturned ==
    /\ Idle
    /\ \E c \in Callers : last_op[c] \in {"stop", "stop_noop"}
    /\ \A c \in Callers : last_op[c] \in {"stop", "stop_noop", "none"}

\* C1: at most one sampling task is alive in every reachable state, and exactly
\* one whenever the collector reports itself running (no call under way).
C1_OneSamplingTask ==
    /\ Cardinality(AliveThreads) <= 1
    /\ (Idle /\ is_collecting) => Cardinality(AliveThreads) = 1

\* C2: once stop_collection has returned, and until the next start_collection,
\* the collector reports itself not running and the sample sequence no longer
\* changes.
C2_QuietAfterStop ==
    [][(StopReturned /\ StopReturned') =>
         (~is_collecting /\ ~is_collecting' /\ metrics_data' = metrics_data)]_vars

\* C3: start_collection on a running collector returns at once and changes
\* nothing: the sampling tasks stay exactly one, the samples are not reset, the
\* start time and the stop signal are as they were.
C3_StartWhileRunning ==
    [][\A c \in Callers : (IsStartCall(c) /\ is_collecting) =>
         /\ cpc'[c] = "idle"
         /\ UNCHANGED <<collector, threads>>
         /\ Cardinality(AliveThreads) = 1
         /\ Cardinality(AliveThreads') = 1]_vars

\* caller c has executed self.metrics_data = []
HasReset(c) ==
    \/ cpc[c] \in {"start_39", "start_40", "start_43", "start_44", "start_45"}
    \/ last_op[c] \in {"start", "start_raised_44", "start_raised_45"}
\* C4: two callers calling start_collection on an idle collector launch exactly
\* one sampling task between them and reset the samples at most once.
C4_OneLaunchUnderRace ==
    /\ Cardinality(Launched) <= 1
    /\ Cardinality({c \in Callers : HasReset(c)}) <= 1
    /\ (Idle /\ \A c \in Callers : last_op[c] # "none") => Cardinality(Launched) = 1

\* C5: start_collection on a collector that is not running resets the sample
\* sequence, records the start time, clears the stop signal and launches exactly
\* one new sampling task, which is the collector's thread.
C5_StartLaunches ==
    [][\A c \in Callers :
         /\ (IsStartCall(c) /\ ~is_collecting) => cpc'[c] = "start_37"
         /\ Leaves(c, "start_37") =>
              (is_collecting' /\ metrics_data' = <<>> /\ cpc'[c] = "start_39")
         /\ Leaves(c, "start_39") => (start_time' = now /\ cpc'[c] = "start_40")
         /\ Leaves(c, "start_40") => (~stop_event' /\ cpc'[c] = "start_43")
         /\ Leaves(c, "start_43") =>
              (IsUnstarted(collection_thread') /\ cpc'[c] = "start_44")
         /\ Leaves(c, "start_44") => cpc'[c] = "start_45"
         /\ Leaves(c, "start_45") =>
              /\ ~stop_event'
              /\ collection_thread' \notin Launched
              /\ Launched' = Launched \cup {collection_thread'}
              /\ AliveThreads' = AliveThreads \cup {collection_thread'}
              /\ is_collecting'
              /\ cpc'[c] = "idle" /\ last_op'[c] = "start"]_vars
\* a second session has been started at a later time, and its list is empty
C5_Witness ==
    /\ cpc["c1"] = "idle" /\ last_op["c1"] = "start"
    /\ Cardinality(Launched) = 2
    /\ collection_thread = 2 /\ Alive(2)
    /\ metrics_data = <<>> /\ start_time = 1 /\ ~stop_event

\* C6: stop_collection on a collector that is not running returns at once: no
\* stop signal, no join, nothing changed; after a stop_collection has returned the
\* collector is not running, so a second one in a row is that no-op.
C6_StopWhenIdle ==
    [][\A c \in Callers :
         /\ (IsStopCall(c) /\ ~is_collecting) =>
              /\ cpc'[c] = "idle" /\ last_op'[c] = "stop_noop"
              /\ UNCHANGED <<collector, threads>>
         /\ (cpc'[c] = "idle" /\ last_op'[c] \in {"stop", "stop_noop"}) =>
              ~is_collecting']_vars
\* a stop_collection has returned as a no-op after a session was stopped
C6_Witness ==
    /\ cpc["c1"] = "idle" /\ last_op["c1"] = "stop_noop"
    /\ start_time # NoTime /\ Launched # {}

\* C7: no line of stop_collection waits for the sampling task for ever: at every
\* line the caller can take its next step whatever the task does, and taking it
\* leaves every sampling task as it is (abandoned, not killed).
C7_StopReturns ==
    \A c \in Callers :
        cpc[c] \in {"stop_55", "stop_58"} =>
            ENABLED (stop_collection(c) /\ UNCHANGED threads)
\* stop_collection has returned while the task it waited for is still alive
C7_Witness ==
    /\ cpc["c1"] = "idle" /\ last_op["c1"] = "stop"
    /\ Alive(collection_thread)
    /\ tpc[collection_thread] = "collect_67"

\* C8: a sampling thread ends only at the loop test, with the stop signal set;
\* an iteration that raised waits and goes back to the loop test.
C8_LoopExitsOnlyOnStop ==
    [][\A t \in Threads :
         /\ (tpc[t] # "done" /\ tpc'[t] = "done") =>
              (tpc[t] = "loop_65" /\ stop_event)
         /\ (tpc[t] = "collect_67" /\ tpc'[t] # "collect_67") =>
              tpc'[t] \in {"append_68", "sleep_72"}
         /\ (tpc[t] = "sleep_72" /\ tpc'[t] # "sleep_72") =>
              tpc'[t] = "loop_65"]_vars
\* an iteration has raised, the stop signal is not set, the thread is waiting
C8_Witness ==
    \E t \in Threads : tpc[t] = "sleep_72" /\ ~stop_event /\ is_collecting

\* the sample in which a probe that failed gives {} and the others their result
OrEmpty(result) == IF result.raised THEN EmptyDict ELSE result.val
IsolatedSample(in, ts) ==
    [timestamp |-> ts,
     system |-> OrEmpty(collect_system_metrics(in.sys)),
     gpu |-> OrEmpty(collect_gpu_metrics(in.smi, in.torch)),
     npu |-> OrEmpty(collect_npu_metrics(in.npu))]
\* C9: a probe that fails in an iteration gives {} for its source only: the
\* sample is still appended, with the results of the other probes.
C9_ProbeFailureIsolated ==
    [][\A t \in Threads :
         /\ (tpc[t] = "collect_67" /\ tpc'[t] # "collect_67") =>
              tpc'[t] = "append_68"
         /\ (tpc[t] = "append_68" /\ tpc'[t] # "append_68") =>
              metrics_data' = Append(metrics_data, IsolatedSample(tin[t], tts[t]))]_vars

\* the tool is not on PATH, cannot be executed, hangs, or exits with an error
ToolUnavailable(run) ==
    \/ run.kind \in {"not_found", "os_error", "timeout"}
    \/ run.kind = "exit" /\ run.returncode # 0
\* C10: with a vendor tool missing or unavailable, its probe returns {} and
\* raises nothing, and the sample holds what the other probes return.
C10_MissingToolEmpty ==
    \A c \in Callers :
        LET in == ret[c].in
            out == ret[c].out
        IN  in # NoInput =>
              /\ ToolUnavailable(in.smi) =>
                   /\ collect_gpu_metrics(in.smi, in.torch) = Returned(EmptyDict)
                   /\ ~collect_npu_metrics(in.npu).raised =>
                        out = Returned(IsolatedSample(in, out.val.timestamp))
              /\ ToolUnavailable(in.npu) =>
                   /\ collect_npu_metrics(in.npu) = Returned(EmptyDict)
                   /\ ~collect_gpu_metrics(in.smi, in.torch).raised =>
                        out = Returned(IsolatedSample(in, out.val.timestamp))

\* C11: the samples are in strictly increasing timestamp order, in every
\* reachable state and after any sequence of start_collection and stop_collection.
C11_TimestampsIncrease ==
    \A i, j \in 1..Len(metrics_data) :
        i < j => metrics_data[i].timestamp < metrics_data[j].timestamp

\* the step is caller c's get_metrics_summary returning: at its first line on
\* an empty list, or with the length it reads at line 241
SummaryReturns(c) ==
    /\ cpc'[c] = "idle"
    /\ \/ cpc[c] = "summary_241"
       \/ cpc[c] = "idle" /\ "summary" \in may_call[c] /\ calls_left'[c] # calls_left[c]
\* apart from caller c, the last call that returned was a stop_collection and
\* no call is under way
StopReturnedBut(c) ==
    /\ \A d \in Callers \ {c} : cpc[d] = "idle"
    /\ \E d \in Callers \ {c} : last_op[d] \in {"stop", "stop_noop"}
    /\ \A d \in Callers \ {c} : last_op[d] \in {"stop", "stop_noop", "none"}
\* the samples of the list that were taken in the session started at start_time
SessionSamples ==
    {i \in 1..Len(metrics_data) : metrics_data[i].timestamp >= start_time}
\* total_samples as a summary reports it; the empty summary reports no sample
TotalSamples(out) == IF out.val = EmptyDict THEN 0 ELSE out.val.total_samples
\* C13: get_metrics_summary on a completed session (its stop_collection has
\* returned, no start_collection since) reports as total_samples the number N
\* of samples taken in that session: the count it reads and returns while the
\* session is completed is N.
C13_TotalSamples ==
    [][\A c \in Callers :
         (SummaryReturns(c) /\ StopReturnedBut(c) /\ start_time # NoTime) =>
             /\ ~ret'[c].out.raised
             /\ TotalSamples(ret'[c].out) = Cardinality(SessionSamples)]_vars

\* C14: get_metrics_summary on an empty sample sequence (collector never
\* started, or session without a sample) returns the empty summary; no call of
\* it raises, so no path of the computation divides by a zero sample count.
C14_EmptySummary ==
    \A c \in Callers :
        ret[c] # NoReturn =>
            /\ ~ret[c].out.raised
            /\ metrics_data = <<>> => ret[c].out = Returned(EmptyDict)
\* the summary of a session that took no sample has been asked for
C14_Witness ==
    /\ ret["c1"] # NoReturn
    /\ metrics_data = <<>> /\ start_time # NoTime /\ last_op["c1"] = "stop"

\* the numeric fields the summary reports, and the keys it reports them under
SummaryFields == {"cpu_percent", "memory_percent"}
AvgKey == ("cpu_percent" :> "avg_cpu_percent") @@ ("memory_percent" :> "avg_memory_percent")
MaxKey == ("cpu_percent" :> "max_cpu_percent") @@ ("memory_percent" :> "max_memory_percent")
\* the samples in which field f of section sec is present
Present(sec, f) ==
    {i \in 1..Len(metrics_data) :
        HasKey(metrics_data[i], sec) /\ HasKey(metrics_data[i][sec], f)}
RECURSIVE SumOver(_, _, _)
SumOver(P, sec, f) ==
    IF P = {} THEN 0
    ELSE LET i == CHOOSE j \in P : TRUE
         IN  metrics_data[i][sec][f] + SumOver(P \ {i}, sec, f)
\* C15: for a non-empty sample sequence the summary holds, for each numeric
\* field present in at least one sample, the mean and the maximum over exactly
\* the samples in which the field is present, and no entry for a field that is
\* absent from every sample.
C15_MeanOverPresent ==
    \A c \in Callers :
        (ret[c] # NoReturn /\ metrics_data # <<>>) =>
            /\ ~ret[c].out.raised
            /\ \A sec \in {"system", "gpu", "npu"}, f \in SummaryFields :
                 LET P == Present(sec, f)
                     part == ret[c].out.val[sec]
                 IN  IF P = {}
                     THEN ~HasKey(part, AvgKey[f]) /\ ~HasKey(part, MaxKey[f])
                     ELSE /\ HasKey(part, AvgKey[f]) /\ HasKey(part, MaxKey[f])
                          /\ part[AvgKey[f]].num * Cardinality(P)
                               = SumOver(P, sec, f) * part[AvgKey[f]].den
                          /\ \E i \in P : part[MaxKey[f]] = metrics_data[i][sec][f]
                          /\ \A i \in P : part[MaxKey[f]] >= metrics_data[i][sec][f]

\* the collector's session is running: the start_collection of the context that
\* runs it (the runner, or the caller that starts and stops) has returned, its
\* stop_collection has not
InSession == last_op[Orchestrator] = "start"
\* C12: while a session is under way, from the return of start_collection to
\* the return of stop_collection, the sample sequence is changed by the
\* sampling task only, appending the sample it has taken: no step of the
\* orchestrator or of another caller appends to it, clears it or replaces it.
C12_OnlyTheTaskWrites ==
    [][(InSession /\ metrics_data' # metrics_data) =>
         \E t \in Threads :
            /\ tpc[t] = "append_68" /\ tpc'[t] # "append_68"
            /\ metrics_data' =
                 Append(metrics_data, collect_current_metrics(tin[t], tts[t]).val)
            /\ UNCHANGED <<cpc, rpc, gpc>>]_vars

\* the run of group g has returned
Finished(g) == \E i \in 1..Len(finished) : finished[i] = g
\* the entry is explicitly marked disabled
MarkedDisabled(e) == HasKey(e.cfg, "enabled") /\ e.cfg.enabled = FALSE
\* the entries of group g that are not, in the order of the configuration
EnabledItems(g) ==
    SelectSeq(GroupConfig(config, g).items, LAMBDA e : ~MarkedDisabled(e))
\* C16: in a group run a unit that raises yields a result with status failed
\* and a non-empty error message; every other enabled unit is invoked all the
\* same and its result is what it returned: the results are one per enabled
\* entry, each reflecting its own unit's outcome.
C16_FailureIsolated ==
    \A g \in GroupNames :
        Finished(g) =>
            LET es == EnabledItems(g)
                rs == group_results[g]
            IN  /\ Len(rs) = Len(es)
                /\ invocations = [i \in 1..Len(es) |-> <<g, es[i].name>>]
                /\ \A i \in 1..Len(es) :
                     IF CallUnit(units, g, es[i].name, 0).raised
                     THEN /\ rs[i].benchmark_name = es[i].name
                          /\ rs[i].status = "failed"
                          /\ HasKey(rs[i], "error") /\ rs[i].error # ""
                     ELSE rs[i] = CallUnit(units, g, es[i].name, rs[i].timestamp).val

\* C17: a group run returns one result per enabled entry, in the order of the
\* configuration; an entry is skipped if and only if it is explicitly marked
\* disabled; the unit of a skipped entry is never invoked, the unit of an
\* enabled entry is invoked exactly once.
C17_OneResultPerEnabledEntry ==
    /\ \A i \in 1..Len(invocations) :
         /\ i <= Len(EnabledItems(grp))
         /\ invocations[i] = <<grp, EnabledItems(grp)[i].name>>
    /\ \A g \in GroupNames :
         Finished(g) =>
            /\ Len(group_results[g]) = Len(EnabledItems(g))
            /\ \A i \in 1..Len(EnabledItems(g)) :
                 group_results[g][i].benchmark_name = EnabledItems(g)[i].name
            /\ Len(invocations) = Len(EnabledItems(g))
\* a group of three entries has returned two results: one entry was disabled,
\* one had no `enabled` key
C17_Witness ==
    \E g \in GroupNames :
        /\ Finished(g)
        /\ Len(GroupConfig(config, g).items) = 3
        /\ \E i, j \in 1..3 :
             /\ MarkedDisabled(GroupConfig(config, g).items[i])
             /\ GroupConfig(config, g).items[j].cfg = EmptyDict
        /\ Len(group_results[g]) = 2
        /\ Len(invocations) = 2

\* the groups in the order the claim gives them
GroupOrder == <<"training", "inference", "stress">>
RankOf(g) == CHOOSE i \in 1..Len(GroupOrder) : GroupOrder[i] = g
\* the results recorded so far: those of the groups that have returned and
\* those of the group under way
Recorded ==
    LET done(g) == IF Finished(g) THEN Len(group_results[g]) ELSE 0
    IN  done("training") + done("inference") + done("stress")
          + (IF gpc # "idle" THEN Len(results) ELSE 0)
\* name and status of the results a group is to give
Expected(g) ==
    [i \in 1..Len(EnabledItems(g)) |->
        <<EnabledItems(g)[i].name,
          IF CallUnit(units, g, EnabledItems(g)[i].name, 0).raised THEN "failed" ELSE "success">>]
Brief(rs) == [i \in 1..Len(rs) |-> <<rs[i].benchmark_name, rs[i].status>>]
\* run_all_benchmarks has merged the results of the groups
Merged == rpc \in {"report_374", "json_254", "html_259", "return_380"}
\* C18: run_all_benchmarks runs training, then inference, then stress, one
\* after the other: the groups return in that order, the group under way is
\* the one after those that have returned, every unit invoked but the one
\* executing has given its result, and the merged list is the results of
\* training, then inference, then stress, each in the order of its entries.
C18_GroupsInSequence ==
    /\ \A i \in 1..Len(finished) : finished[i] = GroupOrder[i]
    /\ gpc # "idle" => grp = GroupOrder[Len(finished) + 1]
    /\ \A i, j \in 1..Len(invocations) :
         i < j => RankOf(invocations[i][1]) <= RankOf(invocations[j][1])
    /\ rpc # "raised" =>
         Len(invocations) = Recorded + (IF gpc = "unit_112" THEN 1 ELSE 0)
    /\ Merged =>
         /\ all_results = group_results["training"] \o group_results["inference"]
                            \o group_results["stress"]
         /\ Brief(all_results) = Expected("training") \o Expected("inference")
                                   \o Expected("stress")
\* the results of the three groups have been merged: three of them, one from
\* every group
C18_Witness ==
    /\ Merged
    /\ Len(all_results) = 3
    /\ \A g \in GroupNames : group_results[g] # <<>>

\* C19: in run_all_benchmarks the collector is started before the first unit is
\* invoked, is running while a unit executes, is stopped only after the last
\* unit has finished, and the report is built and written only after the
\* collector has been stopped.
C19_CollectorAroundUnits ==
    /\ invocations # <<>> => last_op[Orchestrator] \in {"start", "stop"}
    /\ gpc = "unit_112" =>
         /\ is_collecting /\ InSession /\ cpc[Orchestrator] = "idle"
         /\ Alive(collection_thread)
    /\ (cpc[Orchestrator] \in {"stop_55", "stop_58"}
          \/ last_op[Orchestrator] \in {"stop", "stop_noop"}) =>
         (gpc = "idle" /\ Len(finished) = 3)
    /\ (report_data # NoReport \/ files # {}) =>
         /\ last_op[Orchestrator] = "stop" /\ cpc[Orchestrator] = "idle"
         /\ ~is_collecting
\* the JSON report of a run of several units has been written, with samples taken
C19_Witness ==
    /\ Written("json") /\ ~Written("html") /\ report_data # NoReport
    /\ Len(invocations) >= 3
    /\ metrics_data # <<>>

\* the error field of a result is populated: present and not empty
Populated(r) == HasKey(r, "error") /\ r.error # ""
\* C20: for every result recorded by a group run, the error field is populated
\* if and only if the status of the result is failed, whatever the unit
\* returned or raised.
C20_ErrorIffFailed ==
    \A i \in 1..Len(results) : Populated(results[i]) <=> results[i].status = "failed"

\* C21: every result recorded by a group run, successful or failed, carries a
\* name, a kind equal to the group it was run in, a status that is success or
\* failed, and a timestamp.
C21_ResultFields ==
    \A i \in 1..Len(results) :
        LET r == results[i] IN
        /\ HasKey(r, "benchmark_name")
        /\ HasKey(r, "type") /\ r.type = grp
        /\ HasKey(r, "status") /\ r.status \in {"success", "failed"}
        /\ HasKey(r, "timestamp")

\* C22: in every report built from a list of results, total is the number of
\* results, successful the number of results with status success, failed is
\* total minus successful, and so successful + failed = total.
C22_ReportCounts ==
    report_data # NoReport =>
        LET summary == report_data.summary IN
        /\ report_data.results = all_results
        /\ summary.total_tests = Len(all_results)
        /\ summary.successful_tests =
              Cardinality({i \in 1..Len(all_results) : all_results[i].status = "success"})
        /\ summary.failed_tests = summary.total_tests - summary.successful_tests
        /\ summary.successful_tests + summary.failed_tests = summary.total_tests
\* a report of three results has been built, some successful and some failed
C22_Witness ==
    /\ report_data # NoReport
    /\ report_data.summary.total_tests = 3
    /\ report_data.summary.successful_tests >= 1
    /\ report_data.summary.failed_tests >= 1

\* generate_report has come to its end, by a return or by an exception,
\* after the JSON report was written: _generate_html_report has been called
ReportEnded == Written("json") /\ rpc \in {"return_380", "raised"}
\* successful / total * 100, or 0 for no result, in tenths of a percent
RateOf(successful, total) ==
    IF total = 0 THEN 0 ELSE (2000 * successful + total) \div (2 * total)
\* C23: the success rate of the report is successful / total * 100 when total
\* is positive and 0 when it is 0: the HTML report of every list of results
\* states it, 0 for the empty list, 100 when every result succeeded and 0 when
\* every result failed.
C23_SuccessRate ==
    ReportEnded =>
        LET html == _generate_html_report(report_data)
            n == Len(all_results)
        IN  /\ ~html.raised
            /\ html.val.success_rate =
                  RateOf(report_data.summary.successful_tests, n)
            /\ n = 0 => html.val.success_rate = 0
            /\ (n > 0 /\ \A i \in 1..n : all_results[i].status = "success")
                  => html.val.success_rate = 1000
            /\ (\A i \in 1..n : all_results[i].status = "failed")
                  => html.val.success_rate = 0

\* C24: the JSON report and the HTML report of a run are made from the same
\* report value: the HTML report is generated, and the two state the same
\* total, successful and failed counts and the same status for every result,
\* in the same order.
C24_ReportsAgree ==
    ReportEnded =>
        LET json == JsonDump(report_data)
            html == _generate_html_report(report_data)
        IN  /\ ~html.raised
            /\ html.val.total_tests = json.summary.total_tests
            /\ html.val.successful_tests = json.summary.successful_tests
            /\ html.val.failed_tests = json.summary.failed_tests
            /\ Len(html.val.results_html) = Len(json.results)
            /\ \A i \in 1..Len(json.results) :
                 html.val.results_html[i].status = json.results[i].status

\* main has ended: it has returned (from the group run, or after the return of
\* run_all_benchmarks), or an exception has left it
MainReturned == rpc \in {"returned", "return_380"}
Exited == MainReturned \/ rpc = "raised"
\* the exit code of the process (runner.py:414-415): 1 when an exception has
\* left main, 0 when main has returned
ExitCode == IF rpc = "raised" THEN 1 ELSE 0
\* the configuration could not be loaded
LoadFailed == config_file.kind # "yaml"
\* generate_report has been called
ReportAttempted ==
    \/ report_data # NoReport
    \/ rpc \in {"report_374", "json_254", "html_259"}
    \/ exc.at \in {"detect_247", "open_255", "format_339", "open_261"}
\* C25: the run always completes and always attempts to produce a report, for
\* every selector and even when every benchmark fails: when main has ended,
\* then, unless the configuration could not be loaded, it has returned and
\* generate_report has been called.
C25_AlwaysReports ==
    (Exited /\ ~LoadFailed) => (MainReturned /\ ReportAttempted)

\* C26: no public operation of the runner or of the collector lets an exception
\* escape to its caller, whatever the shape of the entries of the
\* configuration and whatever units and probes do: no group run ends by an
\* exception, and no method of the collector has raised.
C26_NoExceptionEscapes ==
    /\ rpc # "raised"
    /\ exc = NoException
    /\ \A c \in Callers : ~ret[c].out.raised

\* C27: a report file that cannot be written does not invalidate the results:
\* the failed write does not end run_all_benchmarks by an exception, which
\* goes on to return the results and the counts.
C27_WriteFailureTolerated ==
    /\ ~(rpc = "raised" /\ exc.type = "OSError")
    /\ exc.at \notin {"open_255", "open_261"}

\* C28: the exit code is non-zero only when the configuration cannot be
\* loaded: failing units, an output directory that cannot be made, a report
\* that cannot be written or a malformed entry leave it zero.
C28_ExitCode ==
    (Exited /\ ExitCode # 0) => LoadFailed

\* C29: when the configuration cannot be loaded or parsed, the error of
\* load_config leaves the constructor and nothing else happens: the
\* collector is not started, no detector and no unit is called, no report is
\* built or written.
C29_LoadErrorPropagates ==
    LoadFailed =>
        /\ rpc \in {"main_400", "raised"}
        /\ rpc = "raised" =>
              exc = Exception(LoadError[config_file.kind], "load_config_33")
        /\ config = NoConfig
        /\ ~is_collecting /\ Launched = {} /\ start_time = NoTime
        /\ \A c \in Callers : cpc[c] = "idle" /\ last_op[c] = "none"
        /\ invocations = <<>> /\ detector_calls = <<>>
        /\ report_data = NoReport /\ files = {}
\* the constructor has raised the error of a file that is no YAML
C29_Witness ==
    /\ config_file.kind = "invalid"
    /\ rpc = "raised"
    /\ exc = Exception("YAMLError", "load_config_33")

\* hardware.type of the configuration, auto when it is left out
Configured == Get(Get(config, "hardware", EmptyDict), "type", "auto")
\* C30: detect_hardware returns an explicit, non-auto configured value
\* unchanged and calls no detector; for auto or no value it calls the NVIDIA
\* detector, then the Ascend one, returns the kind of the first that reports
\* true without calling the later one, and unknown when none reports true.
C30_DetectionOrder ==
    rpc \in {"detected", "raised"} =>
        /\ rpc = "detected"
        /\ IF Configured # "auto"
           THEN hardware_type = Configured /\ detector_calls = <<>>
           ELSE IF detection.torch = "cuda"
                THEN hardware_type = "nvidia" /\ detector_calls = <<"nvidia">>
                ELSE /\ detector_calls = <<"nvidia", "ascend">>
                     /\ hardware_type = IF detection.lspci = "ascend"
                                        THEN "ascend" ELSE "unknown"

\* C31: no hardware detector ever raises: whatever torch and lspci do, a
\* detector answers (an internal error is "not detected"), and so
\* detect_hardware returns a hardware kind on every machine.
C31_DetectorsNeverRaise ==
    rpc \in {"detected", "raised"} =>
        /\ \A i \in 1..Len(detector_calls) :
             IF detector_calls[i] = "nvidia"
             THEN ~_detect_nvidia_gpu(detection).raised
             ELSE ~_detect_ascend_npu(detection).raised
        /\ rpc = "detected"
        /\ exc = NoException
        /\ hardware_type \in {"nvidia", "ascend", "unknown", Configured}

\* C32: the GPU probe prefers the tool: when nvidia-smi runs successfully the
\* devices of its output are returned, whatever torch would say (torch is not
\* queried); when the tool is not found or times out the devices of torch are
\* returned if torch has any; when the tool is not found and torch is not
\* installed the result is empty and nothing is raised.
C32_ToolPreferred ==
    \A c \in Callers :
        ret[c].in # NoInput =>
            LET smi == ret[c].in.smi
                torch == ret[c].in.torch
                gpu == collect_gpu_metrics(smi, torch)
            IN  /\ (smi.kind = "exit" /\ smi.returncode = 0) =>
                      /\ ~gpu.raised
                      /\ HasKey(gpu.val, "nvidia")
                      /\ Len(gpu.val.nvidia.gpus) = Len(SmiKept(smi.stdout))
                      /\ \A t \in TorchStates : collect_gpu_metrics(smi, t) = gpu
                /\ (smi.kind \in {"not_found", "timeout"} /\ torch.kind = "cuda") =>
                      /\ ~gpu.raised
                      /\ HasKey(gpu.val, "nvidia")
                      /\ Len(gpu.val.nvidia.gpus) = Len(torch.devices)
                /\ (smi.kind \in {"not_found", "timeout"}
                      /\ torch.kind = "import_error") =>
                      gpu = Returned(EmptyDict)

\* C33: once stop_collection has set the stop signal, the sampling task that
\* the preceding start_collection launched eventually exits its loop, whatever
\* the callers do next, a further start_collection included.
C33_StoppedTaskExits ==
    \A t \in Threads :
        (stop_event /\ collection_thread = t /\ Alive(t)) ~> (tpc[t] = "done")

\* how far a thread is from the end of its loop once the event is set: the
\* lines still ahead of it, an append among them only at ranks 3 and 4
Rank(line) ==
    CASE line = "collect_67" -> 4
      [] line = "append_68" -> 3
      [] line \in {"sleep_69", "sleep_72"} -> 2
      [] line = "loop_65" -> 1
      [] OTHER -> 0
\* thread t appends its sample in this step
Appends(t) == tpc[t] = "append_68" /\ tpc'[t] = "sleep_69"
\* C34: the loop tests the stop signal only at its top: while the signal stays
\* set (no start_collection clears it) a sampling thread only finishes the
\* iteration it is in and exits at the next test, so it appends at most the one
\* sample it was acquiring; the list grows by nothing else.
C34_AtMostOneMoreSample ==
    [][(stop_event /\ stop_event') =>
         /\ \A t \in Threads :
              /\ Rank(tpc'[t]) <= Rank(tpc[t])
              /\ tpc[t] = "loop_65" => tpc'[t] \in {"loop_65", "done"}
              /\ Appends(t) =>
                   metrics_data' = Append(metrics_data, metrics_data'[Len(metrics_data')])
         /\ Len(metrics_data') > Len(metrics_data) =>
              Cardinality({t \in Threads : Appends(t)}) = 1]_vars
\* the signal is set while a thread holds the sample it was acquiring
C34_Witness ==
    \E t \in Threads :
        /\ stop_event /\ ~is_collecting
        /\ tpc[t] = "append_68"
        /\ collection_thread = t

\* C35: whenever run_all_benchmarks has started the collector, the collector
\* has been stopped by the time run_all_benchmarks ends, by a return or by an
\* exception of a group run or of the report.
C35_CollectorStoppedAtEnd ==
    (rpc \in {"raised", "return_380"} /\ Launched # {}) => ~is_collecting

\* C36: the JSON file and the HTML file written by one generate_report call
\* carry the same timestamp suffix: when the call has ended with its JSON file
\* written, an HTML file of the same suffix is beside it.
C36_SameSuffix ==
    ReportEnded =>
        \A j \in files : j.ext = "json" =>
            \E h \in files : h.ext = "html" /\ h.suffix = j.suffix
====
